---- MODULE Spec2Model ----
(***************************************************************************)
(* Vault store of the password manager: the master key, the encrypted      *)
(* envelope, the derived decrypted document, the local cache               *)
(* (localStorage), the remote vault file (GitHub) and the pushes and pulls *)
(* in flight between them; and the login page in front of it, with its    *)
(* retry counters, its attempt history and the wipe it schedules.          *)
(*                                                                         *)
(* JavaScript runs every handler to its first pending network call without *)
(* interruption, so a handler is one action up to its fetch, and the       *)
(* completion of the fetch, with the continuations awaiting it, is another.*)
(***************************************************************************)
EXTENDS Integers, Sequences, FiniteSets, TLC

VARIABLES
    masterKey,              \* writable<Uint8Array | null>
    isAuthenticated,        \* writable<boolean>
    encryptedVault,         \* writable<EncryptedVault | null>
    syncStatus,             \* writable<{syncing, lastSync, error}>
    gitHubConfig,           \* writable<GitHubConfig | null>
    isGitHubAuthenticated,  \* writable<boolean>
    localStorage,           \* durable key-value store of the browser
    remote,                 \* content of vault.json in the repository
    pushes,                 \* uploads in flight: the envelope each one captured
                            \* and, as history, what the cache held at its start
    loads,                  \* downloads in flight: who awaits each one
    rng,                    \* number of nonces drawn from nacl.randomBytes
    uuid,                   \* number of ids drawn from crypto.randomUUID
    now,                    \* the clock read by new Date()
    pat,                    \* whether VITE_GITHUB_PAT is set in this build
    login,                  \* Login.svelte: the component's own variables
    sessionStorage,         \* key-value store of the tab, kept over a reload
    timers,                 \* setTimeout callbacks not yet run, and the
                            \* wipeAllStorage runs waiting for logSecurityEvent
    history,                \* what has happened, for the properties: owed,
                            \* the times a counter reached MAX_RETRIES minus
                            \* the wipeAllStorage runs started; and per method
                            \* the attempts that were carried out and failed
                            \* since its counter was last set to 0
    migration               \* the document migrateVault is handed and what it
                            \* has returned, where the function is run alone

vars == <<masterKey, isAuthenticated, encryptedVault, syncStatus, gitHubConfig,
          isGitHubAuthenticated, localStorage, remote, pushes, loads, rng,
          uuid, now, pat, login, sessionStorage, timers, history, migration>>

(***************************************************************************)
(* Bounds of the model.                                                    *)
(***************************************************************************)
MaxEncrypt == 2     \* encryptions (fresh nonces) in one behaviour
MaxPushes == 1      \* uploads in flight at the same time
MaxLoads == 1       \* downloads in flight at the same time
MaxCount == 6       \* value a retry counter is followed up to
MaxTimers == 2      \* wipes scheduled or running at the same time
MaxOwed == 1        \* distance followed between threshold crossings and wipes
MaxEntries == 2     \* entries of a document handed to migrateVault
MaxApplied == 2     \* calls of migrateVault on one document

(***************************************************************************)
(* Values.                                                                 *)
(***************************************************************************)
Null == [null |-> TRUE]         \* null of a store, of localStorage.getItem
Undef == "undefined"            \* a property that is absent from an object
NoError == "null"               \* syncStatus.error = null
NoDate == -1                    \* syncStatus.lastSync = null
NoVersion == -1                 \* a document without vaultVersion

CURRENT_VAULT_VERSION == 2
MAX_RETRIES == 5

Secrets == {"pw1", "pw2"}       \* master passwords a user may type
Passwords == Secrets
Titles == {"t1"}
EntryPasswords == {"y"}
Notes == {"n1"}

OfflineMsg == "Using cached vault (offline)"

(***************************************************************************)
(* JSON.  A JSON text is the value it denotes inside a wrapper; a text     *)
(* that is not JSON makes JSON.parse throw.                                *)
(***************************************************************************)
JSONstringify(v) == [json |-> v]

NotJson == [text |-> "not json"]

IsJson(s) == "json" \in DOMAIN s

JSONparse(s) == s.json

\* Number.toString and parseInt(text, 10) on the counters.
toString(n) == [str |-> n]

parseInt(text) == text.str

(***************************************************************************)
(* crypto.ts                                                               *)
(***************************************************************************)
saltToString(salt) == [b64 |-> salt]

stringToSalt(saltStr) == saltStr.b64

\* nacl.randomBytes(16): the n-th draw, unlike every salt stored before.
generateSalt(n) == n + 1

\* SHA-512 of password || salt, truncated: distinct inputs, distinct keys.
deriveKey(password, salt) == [password |-> password, salt |-> salt]

\* nacl.secretbox under a nonce; the nonce is the n-th draw of randomBytes.
secretbox(message, nonce, key) == [key |-> key, nonce |-> nonce, text |-> message]

secretbox_open(box, nonce, key) ==
    IF box.key = key /\ box.nonce = nonce THEN box.text ELSE Null

encrypt(data, key, n) ==
    [ciphertext |-> secretbox(data, n + 1, key), nonce |-> n + 1]

\* A decrypt that hands out the plaintext whatever the key.
decrypt_anyKey(ciphertext, nonce, key) ==
    IF ciphertext.nonce = nonce THEN ciphertext.text ELSE Null

decrypt(ciphertext, nonce, key) == secretbox_open(ciphertext, nonce, key)

(***************************************************************************)
(* Documents and envelopes that exist before the session starts.           *)
(***************************************************************************)
Verification == [marker |-> "VALID_VAULT", version |-> "1.0"]

\* A document written by the first schema: no vaultVersion, no globalNotes,
\* entries with a category.
LegacyDoc ==
    [version |-> "1.0", vaultVersion |-> NoVersion,
     vault |-> <<[id |-> 0, title |-> "t1", password |-> "x", created |-> 0,
                  modified |-> 0, category |-> "work"]>>,
     globalNotes |-> Undef, verification |-> Verification]

CurrentDoc ==
    [version |-> "1.0", vaultVersion |-> CURRENT_VAULT_VERSION,
     vault |-> <<[id |-> 0, title |-> "t1", password |-> "x", created |-> 0,
                  modified |-> 0, category |-> Undef]>>,
     globalNotes |-> "", verification |-> Verification]

\* The document initializeVault writes: no entries, no vaultVersion.
emptyVault ==
    [version |-> "1.0", vaultVersion |-> NoVersion, vault |-> << >>,
     globalNotes |-> "", verification |-> Verification]

Envelope(doc, password, salt, nonce) ==
    [salt |-> saltToString(salt), nonce |-> nonce,
     ciphertext |-> secretbox(JSONstringify(doc), nonce, deriveKey(password, salt))]

LegacyEnvelope == Envelope(LegacyDoc, "pw1", 0, -1)
CurrentEnvelope == Envelope(CurrentDoc, "pw1", 0, -2)
\* A backup of another vault, protected by another master password.
ForeignEnvelope == Envelope(CurrentDoc, "pw2", 7, -3)

StoredEnvelopes == {LegacyEnvelope, CurrentEnvelope}

\* Documents that are valid JSON under the right password and carry no
\* verification marker, or another one.
UnmarkedDoc == [CurrentDoc EXCEPT !.verification = [version |-> "1.0"]]
MismarkedDoc ==
    [CurrentDoc EXCEPT !.verification = [marker |-> "OTHER", version |-> "1.0"]]
UnmarkedEnvelope == Envelope(UnmarkedDoc, "pw1", 0, -4)
MismarkedEnvelope == Envelope(MismarkedDoc, "pw1", 0, -5)

\* A JSON object that is no envelope: it has none of the three properties.
PlainObject == [entries |-> "in the clear"]

\* An object whose salt, nonce and ciphertext are there; on any other object
\* the reads give undefined and decodeBase64 throws.
IsEnvelope(v) == {"salt", "nonce", "ciphertext"} \subseteq DOMAIN v

\* What the file reader accepts is any JSON text; importVault is also handed
\* texts that are none.
ImportFiles == {JSONstringify(ForeignEnvelope), JSONstringify(PlainObject), NotJson}

(***************************************************************************)
(* The stores and storages as one record, so that a handler is the         *)
(* composition of the calls it makes, in the order of the source.  ret is  *)
(* the slot for what a call returns; it is no part of the state.           *)
(***************************************************************************)
S ==
    [masterKey |-> masterKey, isAuthenticated |-> isAuthenticated,
     encryptedVault |-> encryptedVault, syncStatus |-> syncStatus,
     gitHubConfig |-> gitHubConfig,
     isGitHubAuthenticated |-> isGitHubAuthenticated,
     localStorage |-> localStorage, remote |-> remote, pushes |-> pushes,
     loads |-> loads, rng |-> rng, uuid |-> uuid, now |-> now,
     login |-> login, sessionStorage |-> sessionStorage, timers |-> timers,
     history |-> history,
     ret |-> [op |-> "none"]]

Commit(s) ==
    /\ Len(s.pushes) <= MaxPushes
    /\ Len(s.loads) <= MaxLoads
    /\ s.rng <= MaxEncrypt
    /\ s.login.passwordRetryCount <= MaxCount
    /\ s.login.webAuthnRetryCount <= MaxCount
    /\ s.timers.wipe + s.timers.wiping <= MaxTimers
    /\ s.history.owed \in -MaxOwed..MaxOwed
    /\ masterKey' = s.masterKey
    /\ isAuthenticated' = s.isAuthenticated
    /\ encryptedVault' = s.encryptedVault
    /\ syncStatus' = s.syncStatus
    /\ gitHubConfig' = s.gitHubConfig
    /\ isGitHubAuthenticated' = s.isGitHubAuthenticated
    /\ localStorage' = s.localStorage
    /\ remote' = s.remote
    /\ pushes' = s.pushes
    /\ loads' = s.loads
    /\ rng' = s.rng
    /\ uuid' = s.uuid
    /\ now' = s.now
    /\ pat' = pat
    /\ login' = s.login
    /\ sessionStorage' = s.sessionStorage
    /\ timers' = s.timers
    /\ history' = s.history
    /\ migration' = migration

RemoveAt(seq, i) == SubSeq(seq, 1, i - 1) \o SubSeq(seq, i + 1, Len(seq))

(***************************************************************************)
(* local-storage.ts                                                        *)
(***************************************************************************)
\* A cache that is handed the envelope and stores what is sealed in it.
cacheVault_decrypted(s, vault) ==
    [s EXCEPT !.localStorage.encrypted_vault =
                    IF IsEnvelope(vault) THEN vault.ciphertext.text
                    ELSE JSONstringify(vault)]

cacheVault(s, vault) ==
    [s EXCEPT !.localStorage.encrypted_vault = JSONstringify(vault)]

getCachedVault(s) ==
    LET vaultData == s.localStorage.encrypted_vault
    IN  IF vaultData = Null THEN Null
        ELSE IF IsJson(vaultData) THEN JSONparse(vaultData) ELSE Null

(***************************************************************************)
(* github-auth.ts                                                          *)
(***************************************************************************)
\* GITHUB_CONFIG.token throws when the build has no token; the catch then
\* leaves both stores as they were.
loadGitHubAuth(s) ==
    IF pat
    THEN [s EXCEPT !.gitHubConfig = [owner |-> "niharnandan", repo |-> "pwms"],
                   !.isGitHubAuthenticated = TRUE]
    ELSE s

(***************************************************************************)
(* github-sync.ts: the outcome of one request.  net is what the network    *)
(* does: "ok", "http_error" (a response that is not ok) or "exception"     *)
(* (fetch rejects).                                                        *)
(***************************************************************************)
Net == {"ok", "http_error", "exception"}

uploadVaultToGitHub(vault, net) ==
    CASE net = "ok" -> [success |-> TRUE, error |-> Undef]
      [] net = "http_error" -> [success |-> FALSE, error |-> "GitHub API error"]
      [] OTHER -> [success |-> FALSE, error |-> "Network error"]

downloadVaultFromGitHub(content, net) ==
    CASE net = "exception" ->
            [success |-> FALSE, error |-> "Error downloading vault", data |-> Null]
      [] net = "http_error" ->
            [success |-> FALSE, error |-> "GitHub API error", data |-> Null]
      [] OTHER ->
            IF content = Null
            THEN [success |-> FALSE, error |-> "No vault found in repository",
                  data |-> Null]
            ELSE IF IsJson(content)
            THEN [success |-> TRUE, error |-> Undef, data |-> JSONparse(content)]
            ELSE [success |-> FALSE, error |-> "Error downloading vault",
                  data |-> Null]

(***************************************************************************)
(* webauthn.ts: the escrow record wraps the master key under a key made    *)
(* from the credential's public key and a salt, both stored next to it.    *)
(***************************************************************************)
WrapKey(publicKey, salt) == [publicKey |-> publicKey, salt |-> salt]

registerWebAuthnCredential(s, key) ==
    LET e == encrypt([keyString |-> key], WrapKey("pk", "ws"), -11)
        storedData == [credentialId |-> "cred", publicKey |-> "pk",
                       encryptedMasterKey |-> e.ciphertext, nonce |-> e.nonce,
                       salt |-> "ws"]
    IN  [s EXCEPT !.localStorage.webauthn_encrypted_key = JSONstringify(storedData)]

\* The key authenticateWithWebAuthn returns when the assertion succeeds, Null
\* when it has nothing to return.
authenticateWithWebAuthn(s) ==
    LET encryptedKeyData == s.localStorage.webauthn_encrypted_key IN
    IF encryptedKeyData = Null THEN Null
    ELSE IF ~IsJson(encryptedKeyData) THEN Null
    ELSE LET storedData == JSONparse(encryptedKeyData)
             decryptedKey == decrypt(storedData.encryptedMasterKey, storedData.nonce,
                                     WrapKey(storedData.publicKey, storedData.salt))
         IN  IF decryptedKey = Null THEN Null ELSE decryptedKey.keyString

(***************************************************************************)
(* security-monitor.ts: the attempt history; of the list of attempts the   *)
(* model keeps that it is there.                                           *)
(***************************************************************************)
trackLoginAttempt(s) ==
    [s EXCEPT !.sessionStorage.login_attempts = JSONstringify("attempts"),
              !.localStorage.session_start =
                    IF @ = Null THEN toString(s.now) ELSE @]

(***************************************************************************)
(* Login.svelte: the retry counters.                                       *)
(***************************************************************************)
\* The reactive block that writes both counters to localStorage; it runs
\* while the component is on the page, which is while no session is open.
persist(s) ==
    IF s.isAuthenticated THEN s
    ELSE [s EXCEPT !.localStorage.webauthn_retry_count =
                        toString(s.login.webAuthnRetryCount),
                   !.localStorage.password_retry_count =
                        toString(s.login.passwordRetryCount)]

\* setTimeout(() => wipeAllStorage(), 2000)
scheduleWipe(s) == [s EXCEPT !.timers.wipe = @ + 1]

\* handleSubmit from the return of unlockVault on.
handleSubmitReturned(s, enableWebAuthn) ==
    IF ~s.ret.result
    THEN LET s1 == [s EXCEPT !.login.passwordRetryCount = @ + 1,
                             !.history.failedPassword = @ + 1,
                             !.history.owed =
                                IF s.login.passwordRetryCount + 1 = MAX_RETRIES
                                THEN @ + 1 ELSE @]
             s2 == trackLoginAttempt(s1)
         IN  IF s2.login.passwordRetryCount >= MAX_RETRIES
             THEN persist(scheduleWipe(trackLoginAttempt(s2)))
             ELSE persist(s2)
    ELSE LET s1 == trackLoginAttempt(s)
             s2 == [s1 EXCEPT !.login.passwordRetryCount = 0,
                              !.login.webAuthnRetryCount = 0,
                              !.history.failedPassword = 0,
                              !.history.failedWebAuthn = 0,
                              !.localStorage.password_retry_count = Null,
                              !.localStorage.webauthn_retry_count = Null]
         IN  IF enableWebAuthn /\ s2.masterKey # Null
             THEN registerWebAuthnCredential(s2, s2.masterKey)
             ELSE s2

(***************************************************************************)
(* vault.ts                                                                *)
(***************************************************************************)
\* vaultVersion ?? 1
VersionOf(vault) ==
    IF vault.vaultVersion = NoVersion THEN 1 ELSE vault.vaultVersion

\* A migration that raises the version by one on every call.
migrateVault_bump(vault) ==
    [vault EXCEPT
        !.vault = [i \in 1..Len(vault.vault) |->
                      [vault.vault[i] EXCEPT !.category = Undef]],
        !.vaultVersion = VersionOf(vault) + 1]

\* A migration that marks the document current and leaves the entries.
migrateVault_keepCategory(vault) ==
    IF VersionOf(vault) >= CURRENT_VAULT_VERSION THEN vault
    ELSE [vault EXCEPT !.vaultVersion = CURRENT_VAULT_VERSION]

migrateVault(vault) ==
    IF VersionOf(vault) >= CURRENT_VAULT_VERSION THEN vault
    ELSE IF VersionOf(vault) = 1
    THEN [vault EXCEPT
            !.vault = [i \in 1..Len(vault.vault) |->
                          [vault.vault[i] EXCEPT !.category = Undef]],
            !.vaultVersion = CURRENT_VAULT_VERSION]
    ELSE vault

\* migrateVault returns its argument itself except in the version 1 branch,
\* which builds a new object: what migratedVault !== parsedVault sees.
migrateVaultIsNewObject(vault) ==
    VersionOf(vault) < CURRENT_VAULT_VERSION /\ VersionOf(vault) = 1

\* The derived store: decrypts the envelope with the key on every read.
vault(mk, ev) ==
    IF mk = Null \/ ev = Null THEN Null
    ELSE IF ~IsEnvelope(ev) THEN Null
    ELSE LET decrypted == decrypt(ev.ciphertext, ev.nonce, mk)
         IN  IF decrypted = Null THEN Null
             ELSE IF IsJson(decrypted) THEN JSONparse(decrypted) ELSE Null

Vault == vault(masterKey, encryptedVault)

syncVaultToGitHub(s) ==
    IF s.gitHubConfig = Null \/ s.encryptedVault = Null
    THEN IF s.encryptedVault # Null THEN cacheVault(s, s.encryptedVault) ELSE s
    ELSE [s EXCEPT !.syncStatus = [@ EXCEPT !.syncing = TRUE, !.error = NoError],
                   !.pushes = Append(@, [envelope |-> s.encryptedVault,
                                         cached |-> s.localStorage.encrypted_vault])]

\* A completion that writes the cache only when the upload succeeded.
syncVaultToGitHubDone_cacheOnSuccess(s, ev, result) ==
    IF result.success
    THEN [cacheVault(s, ev) EXCEPT
            !.syncStatus = [@ EXCEPT !.syncing = FALSE, !.lastSync = s.now,
                                     !.error = NoError]]
    ELSE [s EXCEPT
            !.syncStatus = [@ EXCEPT !.syncing = FALSE,
                              !.error = IF result.error = Undef
                                        THEN "Upload failed" ELSE result.error]]

\* syncVaultToGitHub after uploadVaultToGitHub has answered.
syncVaultToGitHubDone(s, ev, result) ==
    IF result.success
    THEN [cacheVault(s, ev) EXCEPT
            !.syncStatus = [@ EXCEPT !.syncing = FALSE, !.lastSync = s.now,
                                     !.error = NoError]]
    ELSE [cacheVault(s, ev) EXCEPT
            !.syncStatus = [@ EXCEPT !.syncing = FALSE,
                              !.error = IF result.error = Undef
                                        THEN "Upload failed" ELSE result.error]]

\* loadVaultFromGitHub without a configuration: it answers without a request.
loadVaultFromCache(s) ==
    LET cachedVault == getCachedVault(s)
    IN  IF cachedVault # Null
        THEN [s |-> [s EXCEPT !.encryptedVault = cachedVault], loaded |-> TRUE]
        ELSE [s |-> s, loaded |-> FALSE]

\* A loadVaultFromGitHub that gives up when the download fails.
loadVaultFromGitHubDone_noFallback(s, result) ==
    IF result.success /\ result.data # Null
    THEN [s |-> [cacheVault([s EXCEPT !.encryptedVault = result.data], result.data)
                   EXCEPT !.syncStatus = [@ EXCEPT !.syncing = FALSE,
                                            !.lastSync = s.now, !.error = NoError]],
          loaded |-> TRUE]
    ELSE [s |-> [s EXCEPT !.syncStatus =
                    [@ EXCEPT !.syncing = FALSE,
                       !.error = IF result.error = Undef
                                 THEN "Download failed" ELSE result.error]],
          loaded |-> FALSE]

\* loadVaultFromGitHub after downloadVaultFromGitHub has answered.
loadVaultFromGitHubDone(s, result) ==
    IF result.success /\ result.data # Null
    THEN [s |-> [cacheVault([s EXCEPT !.encryptedVault = result.data], result.data)
                   EXCEPT !.syncStatus = [@ EXCEPT !.syncing = FALSE,
                                            !.lastSync = s.now, !.error = NoError]],
          loaded |-> TRUE]
    ELSE LET cachedVault == getCachedVault(s)
         IN  IF cachedVault # Null
             THEN [s |-> [s EXCEPT !.encryptedVault = cachedVault,
                             !.syncStatus = [@ EXCEPT !.syncing = FALSE,
                                                      !.error = OfflineMsg]],
                   loaded |-> TRUE]
             ELSE [s |-> [s EXCEPT !.syncStatus =
                             [@ EXCEPT !.syncing = FALSE,
                                !.error = IF result.error = Undef
                                          THEN "Download failed" ELSE result.error]],
                   loaded |-> FALSE]

\* unlockVault, password flow, from the answer of loadVaultFromGitHub on.
unlockVaultLoaded(s, password, loaded) ==
    LET fail == [s EXCEPT !.ret = [op |-> "unlockVault", result |-> FALSE]]
        currentEncryptedVault == s.encryptedVault
    IN
    IF ~loaded THEN fail
    ELSE IF currentEncryptedVault = Null THEN fail
    ELSE IF ~IsEnvelope(currentEncryptedVault) THEN fail
    ELSE
    LET salt == stringToSalt(currentEncryptedVault.salt)
        key == deriveKey(password, salt)
        decrypted == decrypt(currentEncryptedVault.ciphertext,
                             currentEncryptedVault.nonce, key)
    IN
    IF decrypted = Null THEN fail
    ELSE IF ~IsJson(decrypted) THEN fail
    ELSE
    LET parsed == JSONparse(decrypted)
        parsedVault == IF parsed.globalNotes = Undef
                       THEN [parsed EXCEPT !.globalNotes = ""] ELSE parsed
        migratedVault == migrateVault(parsedVault)
        e == encrypt(JSONstringify(migratedVault), key, s.rng)
        newEncryptedVault == [currentEncryptedVault EXCEPT
                                !.ciphertext = e.ciphertext, !.nonce = e.nonce]
        s1 == IF \/ migrateVaultIsNewObject(parsedVault)
                 \/ migratedVault.vaultVersion # parsedVault.vaultVersion
              THEN cacheVault([s EXCEPT !.encryptedVault = newEncryptedVault,
                                        !.rng = @ + 1],
                              newEncryptedVault)
              ELSE s
        s2 == [s1 EXCEPT !.masterKey = key, !.isAuthenticated = TRUE]
        s3 == loadGitHubAuth(s2)
        s4 == IF s3.isGitHubAuthenticated THEN syncVaultToGitHub(s3) ELSE s3
    IN  [s4 EXCEPT !.ret = [op |-> "unlockVault", result |-> TRUE]]

\* unlockVault, WebAuthn case, from the answer of loadVaultFromGitHub on.
unlockVaultWebAuthnLoaded(s, loaded) ==
    LET ok == [s EXCEPT !.isAuthenticated = TRUE,
                        !.ret = [op |-> "unlockVault", result |-> TRUE]]
        fail == [s EXCEPT !.ret = [op |-> "unlockVault", result |-> FALSE]]
    IN
    IF loaded THEN ok
    ELSE IF s.encryptedVault # Null /\ s.masterKey # Null
    THEN IF ~IsEnvelope(s.encryptedVault) THEN fail
         ELSE IF decrypt(s.encryptedVault.ciphertext, s.encryptedVault.nonce,
                    s.masterKey) # Null
         THEN ok ELSE fail
    ELSE fail

\* What runs when a loadVaultFromGitHub has answered: the rest of its caller.
afterLoad(s, caller, loaded) ==
    CASE caller.kind = "unlock" ->
            LET r == unlockVaultLoaded(s, caller.password, loaded) IN
            IF caller.awaiting.handler = "handleSubmit"
            THEN handleSubmitReturned(r, caller.awaiting.enableWebAuthn)
            ELSE r
      [] caller.kind = "webauthn" -> unlockVaultWebAuthnLoaded(s, loaded)
      [] OTHER -> s

\* loadVaultFromGitHub up to its await; without a configuration it answers at
\* once and the caller goes on.
loadVaultFromGitHub(s, caller) ==
    IF s.gitHubConfig = Null
    THEN LET r == loadVaultFromCache(s) IN afterLoad(r.s, caller, r.loaded)
    ELSE [s EXCEPT !.syncStatus = [@ EXCEPT !.syncing = TRUE, !.error = NoError],
                   !.loads = Append(@, caller)]

\* unlockVault, with the handler that awaits its return.
unlockVaultAwaited(s, password, awaiting) ==
    IF password = "" /\ s.masterKey # Null
    THEN loadVaultFromGitHub(s, [kind |-> "webauthn"])
    ELSE loadVaultFromGitHub(IF password # "" THEN loadGitHubAuth(s) ELSE s,
                             [kind |-> "unlock", password |-> password,
                              awaiting |-> awaiting])

unlockVault(s, password) ==
    unlockVaultAwaited(s, password, [handler |-> "none"])

\* initializeVault returns nothing; what it can do is throw.
initializeVault(s, password) ==
    LET salt == generateSalt(s.rng)
        key == deriveKey(password, salt)
        e == encrypt(JSONstringify(emptyVault), key, s.rng)
    IN  [s EXCEPT !.encryptedVault = [salt |-> saltToString(salt),
                                      nonce |-> e.nonce,
                                      ciphertext |-> e.ciphertext],
                  !.rng = @ + 1,
                  !.masterKey = key,
                  !.isAuthenticated = TRUE,
                  !.ret = [op |-> "initializeVault", threw |-> FALSE]]

\* A lockVault that clears the cache as well, as clearAllData does.
lockVault_clearCache(s) ==
    [s EXCEPT !.masterKey = Null, !.encryptedVault = Null,
              !.isAuthenticated = FALSE,
              !.localStorage.encrypted_vault = Null]

lockVault(s) ==
    [s EXCEPT !.masterKey = Null, !.encryptedVault = Null,
              !.isAuthenticated = FALSE]

\* A tail that leaves the cache to the push.
reencrypt_noCache(s, updatedVault) ==
    LET e == encrypt(JSONstringify(updatedVault), s.masterKey, s.rng)
        newEncryptedVault == [s.encryptedVault EXCEPT
                                !.ciphertext = e.ciphertext, !.nonce = e.nonce]
        s1 == [s EXCEPT !.encryptedVault = newEncryptedVault, !.rng = @ + 1]
    IN  IF s1.isGitHubAuthenticated THEN syncVaultToGitHub(s1) ELSE s1

\* A tail that starts the push first, and then encrypts and stores.
reencrypt_pushFirst(s, updatedVault) ==
    LET s0 == IF s.isGitHubAuthenticated THEN syncVaultToGitHub(s) ELSE s
        e == encrypt(JSONstringify(updatedVault), s0.masterKey, s0.rng)
        newEncryptedVault == [s0.encryptedVault EXCEPT
                                !.ciphertext = e.ciphertext, !.nonce = e.nonce]
        s1 == [s0 EXCEPT !.encryptedVault = newEncryptedVault, !.rng = @ + 1]
    IN  cacheVault(s1, newEncryptedVault)

\* A tail that caches and pushes the new envelope and keeps the old one in
\* memory until the push has answered.
reencrypt_keepInMemory(s, updatedVault) ==
    LET e == encrypt(JSONstringify(updatedVault), s.masterKey, s.rng)
        newEncryptedVault == [s.encryptedVault EXCEPT
                                !.ciphertext = e.ciphertext, !.nonce = e.nonce]
        s2 == cacheVault([s EXCEPT !.rng = @ + 1], newEncryptedVault)
    IN  IF s2.isGitHubAuthenticated
        THEN [s2 EXCEPT !.syncStatus = [@ EXCEPT !.syncing = TRUE, !.error = NoError],
                        !.pushes = Append(@, [envelope |-> newEncryptedVault,
                                              cached |-> s2.localStorage.encrypted_vault])]
        ELSE s2

\* The tail every mutation shares: encrypt the updated document, replace the
\* envelope, cache it, then start the push.
\* A tail that draws a new salt for the envelope it writes.
reencrypt_newSalt(s, updatedVault) ==
    LET e == encrypt(JSONstringify(updatedVault), s.masterKey, s.rng)
        newEncryptedVault == [s.encryptedVault EXCEPT
                                !.salt = saltToString(generateSalt(s.rng)),
                                !.ciphertext = e.ciphertext, !.nonce = e.nonce]
        s1 == [s EXCEPT !.encryptedVault = newEncryptedVault, !.rng = @ + 1]
        s2 == cacheVault(s1, newEncryptedVault)
    IN  IF s2.isGitHubAuthenticated THEN syncVaultToGitHub(s2) ELSE s2

reencrypt(s, updatedVault) ==
    LET e == encrypt(JSONstringify(updatedVault), s.masterKey, s.rng)
        newEncryptedVault == [s.encryptedVault EXCEPT
                                !.ciphertext = e.ciphertext, !.nonce = e.nonce]
        s1 == [s EXCEPT !.encryptedVault = newEncryptedVault, !.rng = @ + 1]
        s2 == cacheVault(s1, newEncryptedVault)
    IN  IF s2.isGitHubAuthenticated THEN syncVaultToGitHub(s2) ELSE s2

\* local-storage.ts, clearCachedVault.
clearCachedVault(s) ==
    [s EXCEPT !.localStorage.encrypted_vault = Null]

\* Complete logout: lock, then clear the cache.
clearAllData(s) == clearCachedVault(lockVault(s))

\* The guards every mutation starts with.
locked(s) ==
    \/ vault(s.masterKey, s.encryptedVault) = Null
    \/ s.masterKey = Null
    \/ s.encryptedVault = Null

\* An addPassword whose ids are the position in the list.
addPassword_idByPosition(s, entry) ==
    LET doc == vault(s.masterKey, s.encryptedVault)
    IN
    IF locked(s) THEN s
    ELSE
    LET newEntry == [id |-> Len(doc.vault) - 1, title |-> entry.title,
                     password |-> entry.password, created |-> s.now,
                     modified |-> s.now, category |-> Undef]
        updatedVault == [doc EXCEPT !.vault = Append(@, newEntry)]
    IN  [reencrypt(s, updatedVault) EXCEPT !.uuid = @ + 1, !.now = @ + 1]

addPassword(s, entry) ==
    LET doc == vault(s.masterKey, s.encryptedVault)
    IN
    IF locked(s) THEN s
    ELSE
    LET newEntry == [id |-> s.uuid + 1, title |-> entry.title,
                     password |-> entry.password, created |-> s.now,
                     modified |-> s.now, category |-> Undef]
        updatedVault == [doc EXCEPT !.vault = Append(@, newEntry)]
    IN  [reencrypt(s, updatedVault) EXCEPT !.uuid = @ + 1, !.now = @ + 1]

findIndex(entries, id) ==
    IF \E i \in 1..Len(entries) : entries[i].id = id
    THEN CHOOSE i \in 1..Len(entries) :
            /\ entries[i].id = id
            /\ \A j \in 1..(i - 1) : entries[j].id # id
    ELSE -1

\* {...entry, ...updates}: the fields updates names replace the entry's.
Merge(entry, updates) ==
    [f \in DOMAIN entry |-> IF f \in DOMAIN updates THEN updates[f] ELSE entry[f]]

\* An update that builds the entry anew from updates: created is set again
\* and modified is left as it was.
updatePassword_rebuilt(s, id, updates) ==
    LET doc == vault(s.masterKey, s.encryptedVault)
    IN
    IF locked(s) THEN s
    ELSE
    LET index == findIndex(doc.vault, id) IN
    IF index = -1 THEN s
    ELSE
    LET updatedEntry == [Merge(doc.vault[index], updates) EXCEPT !.created = s.now]
        updatedVault == [doc EXCEPT !.vault = [@ EXCEPT ![index] = updatedEntry]]
    IN  [reencrypt(s, updatedVault) EXCEPT !.now = @ + 1]

updatePassword(s, id, updates) ==
    LET doc == vault(s.masterKey, s.encryptedVault)
    IN
    IF locked(s) THEN s
    ELSE
    LET index == findIndex(doc.vault, id) IN
    IF index = -1 THEN s
    ELSE
    LET updatedEntry == [Merge(doc.vault[index], updates) EXCEPT !.modified = s.now]
        updatedVault == [doc EXCEPT !.vault = [@ EXCEPT ![index] = updatedEntry]]
    IN  [reencrypt(s, updatedVault) EXCEPT !.now = @ + 1]

deletePassword(s, id) ==
    LET doc == vault(s.masterKey, s.encryptedVault)
    IN
    IF locked(s) THEN s
    ELSE reencrypt(s, [doc EXCEPT !.vault = SelectSeq(@, LAMBDA x : x.id # id)])

\* An updateGlobalNotes that checks the key and the envelope and not the
\* decrypted document: {...null, globalNotes} is an object in JavaScript.
updateGlobalNotes_noVaultCheck(s, notes) ==
    LET doc == vault(s.masterKey, s.encryptedVault)
    IN
    IF s.masterKey = Null \/ s.encryptedVault = Null THEN s
    ELSE reencrypt(s, IF doc = Null THEN [globalNotes |-> notes]
                      ELSE [doc EXCEPT !.globalNotes = notes])

updateGlobalNotes(s, notes) ==
    LET doc == vault(s.masterKey, s.encryptedVault)
    IN
    IF locked(s) THEN s
    ELSE reencrypt(s, [doc EXCEPT !.globalNotes = notes])

\* importVault that also writes the imported envelope to the cache.
importVault_cached(s, vaultData) ==
    IF IsJson(vaultData)
    THEN [cacheVault(s, JSONparse(vaultData)) EXCEPT
            !.encryptedVault = JSONparse(vaultData),
            !.ret = [op |-> "importVault", result |-> TRUE]]
    ELSE [s EXCEPT !.ret = [op |-> "importVault", result |-> FALSE]]

importVault(s, vaultData) ==
    IF IsJson(vaultData)
    THEN [s EXCEPT !.encryptedVault = JSONparse(vaultData),
                   !.ret = [op |-> "importVault", result |-> TRUE]]
    ELSE [s EXCEPT !.ret = [op |-> "importVault", result |-> FALSE]]

(***************************************************************************)
(* Login.svelte: tryWebAuthnLogin from the answer of the authenticator on. *)
(***************************************************************************)
tryWebAuthnLogin(s, asserted) ==
    LET key == IF asserted THEN authenticateWithWebAuthn(s) ELSE Null
        cachedVault == getCachedVault(s)
    IN
    IF key = Null THEN s
    ELSE IF cachedVault = Null THEN [s EXCEPT !.masterKey = Null]
    ELSE unlockVault(
            loadGitHubAuth([s EXCEPT !.masterKey = key,
                                     !.encryptedVault = cachedVault,
                                     !.isAuthenticated = TRUE]),
            "")

(***************************************************************************)
(* The network answers.                                                    *)
(***************************************************************************)
\* The i-th download answers: loadVaultFromGitHub finishes and its caller goes
\* on.
loadAnswered(s, i, net) ==
    LET r == loadVaultFromGitHubDone([s EXCEPT !.loads = RemoveAt(@, i)],
                                     downloadVaultFromGitHub(s.remote, net))
    IN  afterLoad(r.s, s.loads[i], r.loaded)

\* The i-th upload answers: the repository holds the envelope if it succeeded,
\* and syncVaultToGitHub finishes.
pushAnswered(s, i, net) ==
    LET ev == s.pushes[i].envelope
        result == uploadVaultToGitHub(ev, net)
        s1 == [s EXCEPT !.pushes = RemoveAt(@, i),
                        !.remote = IF result.success THEN JSONstringify(ev) ELSE @]
    IN  syncVaultToGitHubDone(s1, ev, result)

\* Login.svelte as it stands on a page without Face ID and without failed
\* attempts: the password form, both counters 0.
LoginAtRest ==
    [passwordRetryCount |-> 0, webAuthnRetryCount |-> 0,
     hasWebAuthn |-> FALSE, showPasswordForm |-> TRUE]

NoTimers == [wipe |-> 0, wiping |-> 0, auto |-> FALSE]

NoHistory == [owed |-> 0, failedPassword |-> 0, failedWebAuthn |-> 0]

(***************************************************************************)
(* Login.svelte: the handlers of the page.                                 *)
(***************************************************************************)
\* isLoading: a handler of the page is waiting for unlockVault.
isLoading(s) ==
    \E i \in 1..Len(s.loads) : s.loads[i].kind \in {"unlock", "webauthn"}

handleSubmit(s, password, enableWebAuthn) ==
    unlockVaultAwaited(s, password,
                       [handler |-> "handleSubmit",
                        enableWebAuthn |-> enableWebAuthn])

\* tryWebAuthnLogin from its first line: focused is document.hasFocus(),
\* gesture what ensureUserGesture answers, asserted whether the authenticator
\* accepts the user.
tryWebAuthnLoginClicked(s, focused, gesture, asserted) ==
    LET s1 == [s EXCEPT !.login.webAuthnRetryCount = @ + 1,
                        !.history.owed =
                            IF s.login.webAuthnRetryCount + 1 = MAX_RETRIES
                            THEN @ + 1 ELSE @]
        key == IF asserted THEN authenticateWithWebAuthn(s1) ELSE Null
        s2 == trackLoginAttempt(s1)
        failed == [s2 EXCEPT !.history.failedWebAuthn = @ + 1]
    IN
    IF ~focused THEN persist(s1)
    ELSE IF s1.login.webAuthnRetryCount >= MAX_RETRIES
    THEN persist(scheduleWipe(s2))
    ELSE IF ~gesture THEN persist(s1)
    ELSE IF key = Null THEN persist(failed)
    ELSE IF getCachedVault(s1) = Null
    THEN persist([tryWebAuthnLogin(failed, asserted) EXCEPT
                    !.login.showPasswordForm = TRUE])
    ELSE tryWebAuthnLogin(
            [s2 EXCEPT !.login.webAuthnRetryCount = 0,
                       !.login.passwordRetryCount = 0,
                       !.history.failedPassword = 0,
                       !.history.failedWebAuthn = 0,
                       !.localStorage.webauthn_retry_count = Null,
                       !.localStorage.password_retry_count = Null],
            asserted)

usePasswordInstead(s) ==
    persist([s EXCEPT !.login.showPasswordForm = TRUE,
                      !.login.webAuthnRetryCount = 0,
                      !.history.failedWebAuthn = 0])

\* A component whose counters live in memory only and start at 0.
mountLogin_fromZero(s, focused) ==
    LET has == s.localStorage.webauthn_encrypted_key # Null
    IN  persist([s EXCEPT
            !.login = [passwordRetryCount |-> 0, webAuthnRetryCount |-> 0,
                       hasWebAuthn |-> has, showPasswordForm |-> ~has],
            !.timers.auto = has /\ focused])

\* The component is created: the counters are read from localStorage, the
\* reactive blocks run once, and onMount schedules the automatic attempt.
mountLogin(s, focused) ==
    LET stored(item) == IF item = Null THEN 0 ELSE parseInt(item)
        has == s.localStorage.webauthn_encrypted_key # Null
    IN  persist([s EXCEPT
            !.login = [passwordRetryCount |->
                            stored(s.localStorage.password_retry_count),
                       webAuthnRetryCount |->
                            stored(s.localStorage.webauthn_retry_count),
                       hasWebAuthn |-> has,
                       showPasswordForm |-> ~has],
            !.timers.auto = has /\ focused])

\* The page is loaded anew: the stores are constructed again, what waited in
\* the old page is gone, an upload already sent may still have arrived, and
\* the login page is shown.
pageLoad(s, landed, focused) ==
    mountLogin(
        [s EXCEPT !.masterKey = Null, !.isAuthenticated = FALSE,
                  !.encryptedVault = Null,
                  !.syncStatus = [syncing |-> FALSE, lastSync |-> NoDate,
                                  error |-> NoError],
                  !.gitHubConfig = Null, !.isGitHubAuthenticated = FALSE,
                  !.remote = IF landed /\ s.pushes # << >>
                             THEN JSONstringify(s.pushes[1].envelope) ELSE @,
                  !.pushes = << >>, !.loads = << >>,
                  !.timers = NoTimers],
        focused)

\* The record logSecurityEvent builds and uploads, as far as it is made from
\* the state of the program: the number of attempts, the attempt history and
\* the start of the session.  The rest describes the device and the page.
securityEvent(s) ==
    [eventType |-> "FAILED_LOGIN_THRESHOLD_EXCEEDED",
     attemptsCount |-> s.login.webAuthnRetryCount + s.login.passwordRetryCount,
     session |-> [sessionStart |-> IF s.localStorage.session_start = Null
                                   THEN toString(s.now)
                                   ELSE s.localStorage.session_start,
                  previousAttempts |->
                        IF s.sessionStorage.login_attempts = Null
                        THEN JSONstringify("[]")
                        ELSE s.sessionStorage.login_attempts],
     security |-> [storageWiped |-> TRUE, webAuthnCredentialsCleared |-> TRUE,
                   sessionTerminated |-> TRUE]]

\* wipeAllStorage up to its await of logSecurityEvent.
wipeAllStorage(s) ==
    [s EXCEPT !.timers.wipe = @ - 1, !.timers.wiping = @ + 1,
              !.history.owed = @ - 1]

\* wipeAllStorage from the return of logSecurityEvent to the reload.
wipeAllStorageLogged(s, landed, focused) ==
    pageLoad(
        [s EXCEPT !.localStorage = [k \in DOMAIN @ |-> Null],
                  !.sessionStorage = [k \in DOMAIN @ |-> Null],
                  !.masterKey = Null, !.encryptedVault = Null,
                  !.isAuthenticated = FALSE,
                  !.login.webAuthnRetryCount = 0,
                  !.login.passwordRetryCount = 0,
                  !.history.failedPassword = 0,
                  !.history.failedWebAuthn = 0],
        landed, focused)

(***************************************************************************)
(* The initial state: nothing in memory; the cache and the repository hold *)
(* what earlier sessions left there.                                       *)
(***************************************************************************)
StoredFiles == {Null} \cup {JSONstringify(e) : e \in StoredEnvelopes}

Init ==
    /\ masterKey = Null
    /\ isAuthenticated = FALSE
    /\ encryptedVault = Null
    /\ syncStatus = [syncing |-> FALSE, lastSync |-> NoDate, error |-> NoError]
    /\ gitHubConfig = Null
    /\ isGitHubAuthenticated = FALSE
    /\ localStorage \in [encrypted_vault : StoredFiles,
                         webauthn_encrypted_key : {Null},
                         webauthn_retry_count : {toString(0)},
                         password_retry_count : {toString(0)},
                         session_start : {Null}]
    /\ remote \in StoredFiles
    /\ pat \in BOOLEAN
    /\ pushes = << >>
    /\ loads = << >>
    /\ rng = 0
    /\ uuid = 0
    /\ now = 1
    /\ login = LoginAtRest
    /\ sessionStorage = [login_attempts |-> Null]
    /\ timers = NoTimers
    /\ history = NoHistory
    /\ migration = Null

(***************************************************************************)
(* Actions.                                                                *)
(***************************************************************************)
EntryIds == 0..MaxEncrypt
NewEntries == [title : Titles, password : EntryPasswords]
Updates == {[password |-> "z"]}

UnlockVault(password) ==
    /\ password \in Passwords
    /\ Commit(unlockVault(S, password))

LoadVaultFromGitHubDone(i, net) ==
    /\ i \in 1..Len(loads)
    /\ Commit(loadAnswered(S, i, net))

SyncVaultToGitHubDone(i, net) ==
    /\ i \in 1..Len(pushes)
    /\ Commit(pushAnswered(S, i, net))

LockVault ==
    /\ TRUE
    /\ Commit(lockVault(S))

AddPassword(entry) ==
    /\ entry \in NewEntries
    /\ Commit(addPassword(S, entry))

UpdatePassword(id, updates) ==
    /\ id \in EntryIds
    /\ Commit(updatePassword(S, id, updates))

DeletePassword(id) ==
    /\ id \in EntryIds
    /\ Commit(deletePassword(S, id))

UpdateGlobalNotes(notes) ==
    /\ notes \in Notes
    /\ Commit(updateGlobalNotes(S, notes))

ImportVault(vaultData) ==
    /\ vaultData \in ImportFiles
    /\ Commit(importVault(S, vaultData))

\* The first-time form of the login page: shown while no session is open.
InitializeVault(password) ==
    /\ password \in Passwords
    /\ ~isAuthenticated
    /\ Commit(initializeVault(S, password))

\* PasswordManager.svelte, handleSyncClick: the manual pull.
HandleSyncClick ==
    /\ isGitHubAuthenticated
    /\ ~syncStatus.syncing
    /\ Commit(loadVaultFromGitHub(S, [kind |-> "manual"]))

\* The page shows Login, and with it the biometric prompt, only while
\* isAuthenticated is false.
TryWebAuthnLogin(asserted) ==
    /\ asserted \in BOOLEAN
    /\ ~isAuthenticated
    /\ Commit(tryWebAuthnLogin(S, asserted))

\* Login.svelte, handleSubmit: after a successful unlock with Face ID enabled.
RegisterWebAuthn ==
    /\ masterKey # Null
    /\ isAuthenticated
    /\ Commit(registerWebAuthnCredential(S, masterKey))

Next ==
    \/ \E password \in Passwords : UnlockVault(password)
    \/ \E i \in 1..MaxLoads, net \in Net : LoadVaultFromGitHubDone(i, net)
    \/ \E i \in 1..MaxPushes, net \in Net : SyncVaultToGitHubDone(i, net)
    \/ LockVault
    \/ \E entry \in NewEntries : AddPassword(entry)
    \/ \E id \in EntryIds, updates \in Updates : UpdatePassword(id, updates)
    \/ \E id \in EntryIds : DeletePassword(id)
    \/ \E notes \in Notes : UpdateGlobalNotes(notes)
    \/ \E vaultData \in ImportFiles : ImportVault(vaultData)
    \/ \E password \in Passwords : InitializeVault(password)
    \/ HandleSyncClick
    \/ \E asserted \in BOOLEAN : TryWebAuthnLogin(asserted)
    \/ RegisterWebAuthn

Spec == Init /\ [][Next]_vars

(***************************************************************************)
(* The login page: its handlers, the timers it sets, the reload, and the   *)
(* logout that brings it back.  Spec above follows the store through the   *)
(* calls the pages make on it and leaves the page's own variables at rest; *)
(* LoginSpec below follows the page, with the counters, the attempt        *)
(* history and the wipe, on top of the same store.                         *)
(***************************************************************************)
HandleSubmit(password, enableWebAuthn) ==
    /\ password \in Passwords
    /\ enableWebAuthn \in BOOLEAN
    /\ ~isAuthenticated
    /\ login.showPasswordForm
    /\ ~isLoading(S)
    /\ Commit(handleSubmit(S, password, enableWebAuthn))

\* The button is disabled once the counter has reached MAX_RETRIES.
TryWebAuthnLoginClicked(focused, gesture, asserted) ==
    /\ ~isAuthenticated
    /\ login.hasWebAuthn
    /\ ~login.showPasswordForm
    /\ ~isLoading(S)
    /\ login.webAuthnRetryCount < MAX_RETRIES
    /\ Commit(tryWebAuthnLoginClicked(S, focused, gesture, asserted))

\* onMount: setTimeout(tryWebAuthnLogin, 50)
TryWebAuthnLoginTimer(focused, gesture, asserted) ==
    /\ timers.auto
    /\ ~isAuthenticated
    /\ Commit(tryWebAuthnLoginClicked([S EXCEPT !.timers.auto = FALSE],
                                      focused, gesture, asserted))

UsePasswordInstead ==
    /\ ~isAuthenticated
    /\ login.hasWebAuthn
    /\ ~login.showPasswordForm
    /\ Commit(usePasswordInstead(S))

WipeAllStorage ==
    /\ timers.wipe > 0
    /\ Commit(wipeAllStorage(S))

WipeAllStorageLogged(landed, focused) ==
    /\ timers.wiping > 0
    /\ Commit(wipeAllStorageLogged(S, landed, focused))

\* The user reloads the page.
Reload(landed, focused) ==
    /\ landed \in BOOLEAN
    /\ Commit(pageLoad(S, landed, focused))

\* PasswordManager.svelte, handleLogout: the page shows Login again.
HandleLogout(focused) ==
    /\ isAuthenticated
    /\ Commit(mountLogin(lockVault(S), focused))

LoginInit ==
    /\ masterKey = Null
    /\ isAuthenticated = FALSE
    /\ encryptedVault = Null
    /\ syncStatus = [syncing |-> FALSE, lastSync |-> NoDate, error |-> NoError]
    /\ gitHubConfig = Null
    /\ isGitHubAuthenticated = FALSE
    /\ localStorage \in [encrypted_vault : {Null, JSONstringify(CurrentEnvelope)},
                         webauthn_encrypted_key : {Null},
                         webauthn_retry_count : {toString(0)},
                         password_retry_count : {toString(0)},
                         session_start : {Null}]
    /\ remote \in {Null, JSONstringify(CurrentEnvelope)}
    /\ pat \in BOOLEAN
    /\ pushes = << >>
    /\ loads = << >>
    /\ rng = 0
    /\ uuid = 0
    /\ now = 1
    /\ login = LoginAtRest
    /\ sessionStorage = [login_attempts |-> Null]
    /\ timers = NoTimers
    /\ history = NoHistory
    /\ migration = Null

LoginNext ==
    \/ \E password \in Passwords, enableWebAuthn \in BOOLEAN :
            HandleSubmit(password, enableWebAuthn)
    \/ \E i \in 1..MaxLoads, net \in Net : LoadVaultFromGitHubDone(i, net)
    \/ \E i \in 1..MaxPushes, net \in Net : SyncVaultToGitHubDone(i, net)
    \/ \E focused, gesture, asserted \in BOOLEAN :
            TryWebAuthnLoginClicked(focused, gesture, asserted)
    \/ \E focused, gesture, asserted \in BOOLEAN :
            TryWebAuthnLoginTimer(focused, gesture, asserted)
    \/ UsePasswordInstead
    \/ WipeAllStorage
    \/ \E landed, focused \in BOOLEAN : WipeAllStorageLogged(landed, focused)
    \/ \E landed, focused \in BOOLEAN : Reload(landed, focused)
    \/ \E focused \in BOOLEAN : HandleLogout(focused)

LoginSpec == LoginInit /\ [][LoginNext]_vars

\* The login page with what the browser guarantees: a timer that was set and
\* not discarded fires.  When a request is answered is up to the network, and
\* whether the user acts is up to the user.
LoginLive ==
    /\ LoginSpec
    /\ WF_vars(WipeAllStorage)
    /\ WF_vars(\E focused, gesture, asserted \in BOOLEAN :
                    TryWebAuthnLoginTimer(focused, gesture, asserted))

\* The same program started on a repository and a cache that hold documents
\* without a valid verification marker.
InitUnverified ==
    /\ masterKey = Null
    /\ isAuthenticated = FALSE
    /\ encryptedVault = Null
    /\ syncStatus = [syncing |-> FALSE, lastSync |-> NoDate, error |-> NoError]
    /\ gitHubConfig = Null
    /\ isGitHubAuthenticated = FALSE
    /\ localStorage \in [encrypted_vault :
                            {Null, JSONstringify(MismarkedEnvelope)},
                         webauthn_encrypted_key : {Null},
                         webauthn_retry_count : {toString(0)},
                         password_retry_count : {toString(0)},
                         session_start : {Null}]
    /\ remote \in {Null, JSONstringify(UnmarkedEnvelope)}
    /\ pat \in BOOLEAN
    /\ pushes = << >>
    /\ loads = << >>
    /\ rng = 0
    /\ uuid = 0
    /\ now = 1
    /\ login = LoginAtRest
    /\ sessionStorage = [login_attempts |-> Null]
    /\ timers = NoTimers
    /\ history = NoHistory
    /\ migration = Null

SpecUnverified == InitUnverified /\ [][Next]_vars

(***************************************************************************)
(* Calls and what they return.  A call that needs no request returns in    *)
(* the step that makes it; a call that waits for a download returns in the *)
(* step in which the download answers.                                     *)
(***************************************************************************)
Returned(s) == s.ret.op = "unlockVault"

\* The envelope a load hands to its caller, Null when it hands over nothing.
Handed(r) == IF r.loaded THEN r.s.encryptedVault ELSE Null

\* The unlockVault(password) calls that return in the next step: the password,
\* how the pull ended ("none": no configuration, no request), the cache the
\* load found, the envelope it handed over, and the state at the return.
UnlockReturns ==
    {[password |-> pw, pull |-> "none", cached |-> getCachedVault(S),
      envelope |-> Handed(loadVaultFromCache(loadGitHubAuth(S))),
      after |-> unlockVault(S, pw)] :
        pw \in {p \in Passwords : Returned(unlockVault(S, p))}}
    \cup
    {[password |-> loads[x[1]].password,
      pull |-> IF downloadVaultFromGitHub(remote, x[2]).success
               THEN "ok" ELSE "failed",
      cached |-> getCachedVault(S),
      envelope |-> Handed(loadVaultFromGitHubDone(
                              S, downloadVaultFromGitHub(remote, x[2]))),
      after |-> loadAnswered(S, x[1], x[2])] :
        x \in {y \in (1..Len(loads)) \X Net : loads[y[1]].kind = "unlock"}}

\* The no-secret unlockVault('') calls of the biometric login that return in
\* the next step.
NoSecretUnlockReturns ==
    {[after |-> tryWebAuthnLogin(S, a)] :
        a \in {b \in {TRUE} : ~isAuthenticated /\ Returned(tryWebAuthnLogin(S, b))}}
    \cup
    {[after |-> loadAnswered(S, x[1], x[2])] :
        x \in {y \in (1..Len(loads)) \X Net : loads[y[1]].kind = "webauthn"}}

\* The secret is not the one the envelope's key was derived from.
WrongSecret(password, envelope) ==
    deriveKey(password, stringToSalt(envelope.salt)) # envelope.ciphertext.key

\* The document the derived store exposes in s.
Exposed(s) == vault(s.masterKey, s.encryptedVault)

(***************************************************************************)
(* C1: isAuthenticated is true only if the master key in memory decrypts   *)
(* the envelope in memory to a parseable document.  The code breaks it:    *)
(* importVault replaces the envelope of an unlocked session unverified,    *)
(* and the biometric login sets the flag on the cached envelope without    *)
(* decrypting it.                                                          *)
(***************************************************************************)
C1_AuthenticatedOnlyIfDecryptable == isAuthenticated => Vault # Null

(***************************************************************************)
(* C2: an unlockVault(secret) that returns false leaves the envelope, the  *)
(* master key, the authenticated flag and the remote configuration as they *)
(* were: here, as they were before the step in which it returns, which the *)
(* claim implies.  The code breaks it: the envelope loaded for the attempt *)
(* stays in encryptedVault and loadGitHubAuth has set the configuration.   *)
(***************************************************************************)
C2_FailedUnlockMutatesNothing ==
    \A u \in UnlockReturns :
        ~u.after.ret.result =>
            /\ u.after.encryptedVault = encryptedVault
            /\ u.after.masterKey = masterKey
            /\ u.after.isAuthenticated = isAuthenticated
            /\ u.after.gitHubConfig = gitHubConfig
            /\ u.after.isGitHubAuthenticated = isGitHubAuthenticated

(***************************************************************************)
(* C3: unlockVault with a secret other than the one that derived the key   *)
(* of the envelope it obtained returns false and leaves masterKey and      *)
(* isAuthenticated as they were: a locked session stays locked.            *)
(***************************************************************************)
C3_WrongSecretStaysLocked ==
    \A u \in UnlockReturns :
        (u.envelope # Null /\ WrongSecret(u.password, u.envelope)) =>
            /\ ~u.after.ret.result
            /\ u.after.masterKey = masterKey
            /\ u.after.isAuthenticated = isAuthenticated

\* A locked session that holds the envelope a refused attempt has loaded, and
\* in which a wrong secret is refused again.
C3_Witness ==
    /\ masterKey = Null
    /\ ~isAuthenticated
    /\ encryptedVault \in StoredEnvelopes
    /\ \E u \in UnlockReturns :
          /\ u.envelope \in StoredEnvelopes
          /\ WrongSecret(u.password, u.envelope)
          /\ ~u.after.ret.result
          /\ u.after.masterKey = Null
          /\ ~u.after.isAuthenticated

\* A document of the current schema: vaultVersion 2, no entry with a category.
IsCurrent(doc) ==
    /\ doc.vaultVersion = CURRENT_VAULT_VERSION
    /\ \A i \in 1..Len(doc.vault) : doc.vault[i].category = Undef

(***************************************************************************)
(* C4: after an unlock that ends with isAuthenticated = true, by password  *)
(* or by biometric login and unlockVault(''), the exposed document has     *)
(* vaultVersion 2 and no entry has a category.  The code breaks it: the    *)
(* no-secret path never calls migrateVault.                                *)
(***************************************************************************)
C4_UnlockExposesCurrentSchema ==
    \A u \in UnlockReturns \cup NoSecretUnlockReturns :
        (u.after.ret.result /\ u.after.isAuthenticated
            /\ Exposed(u.after) # Null) =>
            IsCurrent(Exposed(u.after))

(***************************************************************************)
(* The mutations of the document, as calls.                                *)
(***************************************************************************)
Mutations ==
    {[op |-> "addPassword", entry |-> e] : e \in NewEntries}
    \cup {[op |-> "updatePassword", id |-> i, updates |-> u] :
             i \in EntryIds, u \in Updates}
    \cup {[op |-> "deletePassword", id |-> i] : i \in EntryIds}
    \cup {[op |-> "updateGlobalNotes", notes |-> n] : n \in Notes}

mutate(s, m) ==
    CASE m.op = "addPassword" -> addPassword(s, m.entry)
      [] m.op = "updatePassword" -> updatePassword(s, m.id, m.updates)
      [] m.op = "deletePassword" -> deletePassword(s, m.id)
      [] OTHER -> updateGlobalNotes(s, m.notes)

HasId(doc, id) == \E i \in 1..Len(doc.vault) : doc.vault[i].id = id

\* The claims speak of updatePassword on an existing id.
Applies(m, doc) == m.op = "updatePassword" => HasId(doc, m.id)

\* new is old with the change m asks for, and with nothing else changed.
Reflects(old, new, m) ==
    /\ new # Null
    /\ new.version = old.version
    /\ new.vaultVersion = old.vaultVersion
    /\ new.verification = old.verification
    /\ CASE m.op = "addPassword" ->
              /\ new.globalNotes = old.globalNotes
              /\ Len(new.vault) = Len(old.vault) + 1
              /\ SubSeq(new.vault, 1, Len(old.vault)) = old.vault
              /\ new.vault[Len(new.vault)].title = m.entry.title
              /\ new.vault[Len(new.vault)].password = m.entry.password
              /\ ~HasId(old, new.vault[Len(new.vault)].id)
         [] m.op = "updatePassword" ->
              /\ new.globalNotes = old.globalNotes
              /\ Len(new.vault) = Len(old.vault)
              /\ \A i \in 1..Len(old.vault) :
                    IF old.vault[i].id = m.id
                    THEN /\ new.vault[i].id = m.id
                         /\ new.vault[i].password = m.updates.password
                         /\ new.vault[i].title = old.vault[i].title
                         /\ new.vault[i].created = old.vault[i].created
                    ELSE new.vault[i] = old.vault[i]
         [] m.op = "deletePassword" ->
              /\ new.globalNotes = old.globalNotes
              /\ ~HasId(new, m.id)
              /\ new.vault = SelectSeq(old.vault, LAMBDA x : x.id # m.id)
         [] OTHER ->
              /\ new.globalNotes = m.notes
              /\ new.vault = old.vault

\* The push a call has started: s is the state before it, r the state after.
StartedPush(s, r) == Len(r.pushes) > Len(s.pushes)

PushedAfterStored(s, r) ==
    StartedPush(s, r) =>
        LET push == r.pushes[Len(r.pushes)] IN
        /\ push.envelope = r.encryptedVault
        /\ push.cached = JSONstringify(r.encryptedVault)
        /\ r.localStorage.encrypted_vault = JSONstringify(r.encryptedVault)
        /\ r.rng > s.rng => r.encryptedVault.nonce = r.rng

C7_BackToBackMutationsBothApply ==
    Vault # Null =>
        \A m1 \in {x \in Mutations : Applies(x, Vault)} :
            LET r1 == mutate(S, m1) IN
            StartedPush(S, r1) =>
                \A m2 \in {x \in Mutations : Applies(x, Exposed(r1))} :
                    LET r2 == mutate(r1, m2) IN
                    /\ Reflects(Vault, Exposed(r1), m1)
                    /\ Reflects(Exposed(r1), Exposed(r2), m2)
                    /\ r2.pushes[Len(r1.pushes)] = r1.pushes[Len(r1.pushes)]

\* An entry has been added and its push is in flight; the notes are written
\* now: both pushes are in flight and the document has the entry and the notes.
C7_Witness ==
    /\ Vault # Null
    /\ Len(Vault.vault) = 2
    /\ Len(pushes) = 1
    /\ pushes[1].envelope = encryptedVault
    /\ encryptedVault.nonce = rng
    /\ \E n \in Notes :
          LET r2 == updateGlobalNotes(S, n) IN
          /\ Len(r2.pushes) = 2
          /\ r2.pushes[1] = pushes[1]
          /\ Len(Exposed(r2).vault) = 2
          /\ Exposed(r2).globalNotes = n
          /\ Vault.globalNotes # n

(***************************************************************************)
(* C8: while the session is locked (no master key, no envelope, or an      *)
(* envelope the key does not decrypt) the four mutations change nothing:   *)
(* envelope, cache, repository and syncStatus stay and no push starts.     *)
(***************************************************************************)
C8_LockedMutationsChangeNothing ==
    Vault = Null => \A m \in Mutations : mutate(S, m) = S

\* A session whose key does not decrypt the envelope in memory, with remote
\* authentication: the mutations are called and change nothing.
C8_Witness ==
    /\ masterKey # Null
    /\ encryptedVault # Null
    /\ Vault = Null
    /\ isGitHubAuthenticated
    /\ \A m \in Mutations : mutate(S, m) = S

(***************************************************************************)
(* The loadVaultFromGitHub calls, of any caller, that return in the next   *)
(* step: how the pull ended, the cache the load found, and its result.     *)
(***************************************************************************)
LoadReturns ==
    (IF loadGitHubAuth(S).gitHubConfig = Null
     THEN {[pull |-> "none", cached |-> getCachedVault(S),
            r |-> loadVaultFromCache(S)]}
     ELSE {})
    \cup
    {[pull |-> IF downloadVaultFromGitHub(remote, x[2]).success
               THEN "ok" ELSE "failed",
      cached |-> getCachedVault(S),
      r |-> loadVaultFromGitHubDone([S EXCEPT !.loads = RemoveAt(@, x[1])],
                                    downloadVaultFromGitHub(remote, x[2]))] :
        x \in (1..Len(loads)) \X Net}

\* The pull gave no envelope and the cache has one.
FellBack(pull, cached) == pull # "ok" /\ cached # Null

(***************************************************************************)
(* C9, as stated: when the pull fails (error response, exception, or no    *)
(* remote configuration) and a cache exists, unlockVault with the correct  *)
(* secret returns true on the cached envelope and the status is the        *)
(* offline one; loading fails only when the remote fails and there is no   *)
(* cache.  The status part does not hold.                                  *)
(***************************************************************************)
C9_CachedUnlockIsMarkedOffline ==
    /\ \A u \in UnlockReturns :
          (FellBack(u.pull, u.cached) /\ ~WrongSecret(u.password, u.cached)) =>
              /\ u.after.ret.result
              /\ u.envelope = u.cached
              /\ u.after.syncStatus.error = OfflineMsg
    /\ \A l \in LoadReturns :
          l.r.loaded = (l.pull = "ok" \/ l.cached # Null)

(***************************************************************************)
(* C9, amended: when the pull fails and a cache exists, loadVaultFromGitHub*)
(* hands over the cached envelope, and sets syncStatus.error to "Using     *)
(* cached vault (offline)" if there is a remote configuration and leaves   *)
(* syncStatus alone if there is none; unlockVault with the correct secret  *)
(* then returns true on the cached envelope, and with a remote             *)
(* configuration the push it starts has reset syncStatus.error to null     *)
(* when it returns.  Loading fails only when the pull gives no envelope    *)
(* and there is no cache.                                                  *)
(***************************************************************************)
C9_CachedUnlockSucceeds ==
    /\ \A l \in LoadReturns :
          /\ l.r.loaded = (l.pull = "ok" \/ l.cached # Null)
          /\ FellBack(l.pull, l.cached) =>
                /\ l.r.s.encryptedVault = l.cached
                /\ l.r.s.localStorage = localStorage
                /\ l.pull = "failed" =>
                      /\ l.r.s.syncStatus.error = OfflineMsg
                      /\ ~l.r.s.syncStatus.syncing
                /\ l.pull = "none" => l.r.s.syncStatus = syncStatus
    /\ \A u \in UnlockReturns :
          (FellBack(u.pull, u.cached) /\ ~WrongSecret(u.password, u.cached)) =>
              /\ u.after.ret.result
              /\ u.envelope = u.cached
              /\ u.after.isAuthenticated
              /\ Exposed(u.after) # Null
              /\ u.pull = "failed" =>
                    /\ StartedPush(S, u.after)
                    /\ u.after.syncStatus.syncing
                    /\ u.after.syncStatus.error = NoError
              /\ u.pull = "none" => u.after.syncStatus = syncStatus

\* A password unlock has returned true on the cached envelope after a failed
\* pull: nothing was ever pulled, no key is in escrow, nothing was encrypted,
\* and the push of the unlock is in flight with syncStatus.error null.
C9_Witness ==
    /\ isAuthenticated
    /\ Vault # Null
    /\ gitHubConfig # Null
    /\ syncStatus.lastSync = NoDate
    /\ localStorage.webauthn_encrypted_key = Null
    /\ rng = 0
    /\ Len(pushes) = 1
    /\ pushes[1].envelope = getCachedVault(S)
    /\ syncStatus.syncing
    /\ syncStatus.error = NoError

\* unlockVault(password) called in s and run to its return, whatever the
\* network answers.
unlockVaultRun(s, password) ==
    LET r == unlockVault(s, password) IN
    IF Returned(r) THEN {r}
    ELSE {loadAnswered(r, Len(r.loads), net) : net \in Net}

(***************************************************************************)
(* C10: after importVault(E) has returned true, an unlockVault with the    *)
(* secret E was sealed under returns true and exposes the document in E.   *)
(* The code breaks it: unlockVault loads the envelope of the repository or *)
(* of the cache over the imported one before it decrypts.                  *)
(***************************************************************************)
C10_UnlockDecryptsImportedEnvelope ==
    \A f \in {g \in ImportFiles : IsJson(g) /\ IsEnvelope(JSONparse(g))} :
        LET E == JSONparse(f) IN
        \A pw \in {p \in Passwords : ~WrongSecret(p, E)} :
            \A r \in unlockVaultRun(importVault(S, f), pw) :
                /\ r.ret.result
                /\ Exposed(r) = JSONparse(E.ciphertext.text)

(***************************************************************************)
(* C11: importVault replaces the in-memory envelope and nothing else: the  *)
(* master key, the authenticated flag, the cache, the repository and every *)
(* other part of the state are as before the call; given text that is not  *)
(* JSON it returns false and leaves the envelope as well.                  *)
(***************************************************************************)
C11_ImportReplacesOnlyTheEnvelope ==
    \A f \in ImportFiles :
        LET r == importVault(S, f) IN
        /\ [r EXCEPT !.encryptedVault = encryptedVault, !.ret = S.ret] = S
        /\ IsJson(f) => r.ret.result /\ r.encryptedVault = JSONparse(f)
        /\ ~IsJson(f) => ~r.ret.result /\ r.encryptedVault = encryptedVault

\* A backup was imported into an unlocked session whose key, cache and
\* repository belong to another vault, and a text that is no JSON is about to
\* be refused.
C11_Witness ==
    /\ encryptedVault = ForeignEnvelope
    /\ masterKey = deriveKey("pw1", 0)
    /\ isAuthenticated
    /\ getCachedVault(S) \in StoredEnvelopes
    /\ remote # Null
    /\ ~importVault(S, NotJson).ret.result

\* Nothing was ever stored: the repository and the cache are empty and no
\* envelope is in memory.
FreshInstallation(s) ==
    /\ s.remote = Null
    /\ s.localStorage.encrypted_vault = Null
    /\ s.encryptedVault = Null

(***************************************************************************)
(* C12: on a fresh installation, initializeVault(secret) followed at once  *)
(* by unlockVault(secret) returns true and exposes a document with no      *)
(* entries and empty global notes.  The code breaks it: initializeVault    *)
(* keeps the new envelope in memory only, unlockVault starts by loading    *)
(* from the repository or the cache, finds neither and returns false.      *)
(***************************************************************************)
C12_InitializeThenUnlockSucceeds ==
    FreshInstallation(S) =>
        \A pw \in Passwords :
            \A r \in unlockVaultRun(initializeVault(S, pw), pw) :
                /\ r.ret.result
                /\ Exposed(r) # Null
                /\ Exposed(r).vault = << >>
                /\ Exposed(r).globalNotes = ""

(***************************************************************************)
(* C13: initializeVault called while an envelope is in memory fails and    *)
(* leaves envelope, master key and authenticated flag as they were.  The   *)
(* code breaks it: initializeVault never looks at the envelope, it writes  *)
(* the new one over it and opens the session.                              *)
(***************************************************************************)
C13_InitializeRefusesExistingEnvelope ==
    encryptedVault # Null =>
        \A pw \in Passwords :
            LET r == initializeVault(S, pw) IN
            /\ r.ret.threw
            /\ r.encryptedVault = encryptedVault
            /\ r.masterKey = masterKey
            /\ r.isAuthenticated = isAuthenticated

\* The document carries the marker initializeVault writes.
HasMarker(doc) ==
    /\ "marker" \in DOMAIN doc.verification
    /\ doc.verification.marker = Verification.marker

(***************************************************************************)
(* C14: an unlockVault whose envelope decrypts under the supplied secret   *)
(* to JSON without the verification marker, or with another marker, returns*)
(* false and leaves masterKey and isAuthenticated as they were, as a wrong *)
(* secret does.  The code breaks it: unlockVault never reads the marker,   *)
(* it sets the key and the flag and returns true.                          *)
(***************************************************************************)
C14_UnmarkedDocumentIsRefused ==
    \A u \in UnlockReturns :
        (/\ u.envelope # Null
         /\ ~WrongSecret(u.password, u.envelope)
         /\ IsJson(u.envelope.ciphertext.text)
         /\ ~HasMarker(JSONparse(u.envelope.ciphertext.text))) =>
            /\ ~u.after.ret.result
            /\ u.after.masterKey = masterKey
            /\ u.after.isAuthenticated = isAuthenticated

(***************************************************************************)
(* C15: lockVault sets the master key and the in-memory envelope to null   *)
(* and the authenticated flag to false, and leaves everything else as it   *)
(* was: the cache, the biometric escrow record and the retry counters, in  *)
(* localStorage and in the login page.                                     *)
(***************************************************************************)
C15_LockKeepsDurableState ==
    LET r == lockVault(S) IN
    /\ r.masterKey = Null
    /\ r.encryptedVault = Null
    /\ ~r.isAuthenticated
    /\ r.localStorage = localStorage
    /\ r.login = login
    /\ [r EXCEPT !.masterKey = masterKey, !.encryptedVault = encryptedVault,
                 !.isAuthenticated = isAuthenticated] = S

\* A session was locked by the logout: nothing is in memory any more, while
\* the configuration of the repository, the cache and the escrow record are
\* still there, and a wipe is scheduled.
C15_Witness ==
    /\ masterKey = Null
    /\ encryptedVault = Null
    /\ ~isAuthenticated
    /\ gitHubConfig # Null
    /\ localStorage.encrypted_vault # Null
    /\ localStorage.webauthn_encrypted_key # Null
    /\ timers.wipe > 0
    /\ loads = << >>
    /\ lockVault(S).localStorage = localStorage

\* A step lowers a retry counter of the page.
Lowered ==
    \/ login'.passwordRetryCount < login.passwordRetryCount
    \/ login'.webAuthnRetryCount < login.webAuthnRetryCount

\* A step opens a session whose key decrypts the envelope in memory: a
\* verified successful unlock.
VerifiedUnlock ==
    /\ ~isAuthenticated
    /\ isAuthenticated'
    /\ vault(masterKey', encryptedVault') # Null

\* A step is the end of a wipeAllStorage run.
WipeEnds ==
    /\ timers.wiping > 0
    /\ timers' = [NoTimers EXCEPT !.auto = timers'.auto]
    /\ sessionStorage'.login_attempts = Null
    /\ localStorage'.encrypted_vault = Null
    /\ localStorage'.webauthn_encrypted_key = Null

(***************************************************************************)
(* C16: a retry counter of the login page goes down only in a step that is *)
(* a verified successful unlock or the end of a wipe; no other step lowers *)
(* passwordRetryCount or webAuthnRetryCount.  The code breaks it:          *)
(* usePasswordInstead sets webAuthnRetryCount to 0.                        *)
(***************************************************************************)
C16_CountersResetOnlyBySuccessOrWipe ==
    [][Lowered => (VerifiedUnlock \/ WipeEnds)]_vars

\* The handleSubmit calls that return in the next step: as UnlockReturns, for
\* the page's handler, with the state in which the handler has finished.
SubmitReturns ==
    {[password |-> x[1], envelope |-> Handed(loadVaultFromCache(loadGitHubAuth(S))),
      after |-> handleSubmit(S, x[1], x[2])] :
        x \in {y \in Passwords \X BOOLEAN :
                    /\ ~isAuthenticated
                    /\ login.showPasswordForm
                    /\ ~isLoading(S)
                    /\ Returned(handleSubmit(S, y[1], y[2]))}}
    \cup
    {[password |-> loads[x[1]].password,
      envelope |-> Handed(loadVaultFromGitHubDone(
                              S, downloadVaultFromGitHub(remote, x[2]))),
      after |-> loadAnswered(S, x[1], x[2])] :
        x \in {y \in (1..Len(loads)) \X Net :
                    /\ loads[y[1]].kind = "unlock"
                    /\ loads[y[1]].awaiting.handler = "handleSubmit"}}

\* The tryWebAuthnLogin calls the page can make in this state, with their
\* inputs and the state in which the handler has returned or waits.
WebAuthnAttempts ==
    {[focused |-> x[1], gesture |-> x[2], asserted |-> x[3],
      after |-> tryWebAuthnLoginClicked(S, x[1], x[2], x[3])] :
        x \in {y \in BOOLEAN \X BOOLEAN \X BOOLEAN :
                    /\ ~isAuthenticated
                    /\ login.hasWebAuthn
                    /\ ~login.showPasswordForm
                    /\ ~isLoading(S)
                    /\ login.webAuthnRetryCount < MAX_RETRIES}}

(***************************************************************************)
(* C17: a retry counter goes up only in an attempt of its method that was  *)
(* carried out and failed verification: a handleSubmit whose unlockVault   *)
(* obtained an envelope that the password does not decrypt, or a           *)
(* tryWebAuthnLogin that reached the authenticator and was refused by it.  *)
(* An attempt that ends before (document not focused, no user gesture) or  *)
(* that is verified leaves the counter no higher.  The code breaks it:     *)
(* tryWebAuthnLogin counts in its first lines, before any of its tests.    *)
(***************************************************************************)
C17_CountersCountFailedVerifications ==
    /\ \A u \in SubmitReturns :
          u.after.login.passwordRetryCount > login.passwordRetryCount =>
              u.envelope # Null /\ WrongSecret(u.password, u.envelope)
    /\ \A a \in WebAuthnAttempts :
          a.after.login.webAuthnRetryCount > login.webAuthnRetryCount =>
              /\ a.focused
              /\ login.webAuthnRetryCount + 1 < MAX_RETRIES
              /\ a.gesture
              /\ ~a.asserted

\* A wipe is on its way: scheduled, or running up to its end.
WipePending(s) == s.timers.wipe + s.timers.wiping > 0

(***************************************************************************)
(* C18: each time a retry counter reaches MAX_RETRIES exactly one          *)
(* wipeAllStorage run follows.  Never more than one: no more runs have     *)
(* started than counters have reached the threshold.  Never zero: while a  *)
(* run is owed, one is scheduled, whatever has happened since.  The code   *)
(* breaks both: the wipe is a timer of the page, which a reload discards,  *)
(* and every further attempt above the threshold sets another timer.       *)
(***************************************************************************)
C18_OneWipePerThresholdCrossing ==
    /\ history.owed >= 0
    /\ history.owed > 0 => timers.wipe > 0

\* The steps of the page that set a wipe timer, with the method whose attempt
\* set it and the state after the step.
WipeTriggers ==
    {[method |-> "password", after |-> u.after] :
        u \in {v \in SubmitReturns : v.after.timers.wipe > timers.wipe}}
    \cup
    {[method |-> "webauthn", after |-> a.after] :
        a \in {b \in WebAuthnAttempts : b.after.timers.wipe > timers.wipe}}

(***************************************************************************)
(* C19: a wipe is triggered only when MAX_RETRIES attempts of one method   *)
(* have been carried out and have failed since the counter of that method  *)
(* was last set to 0, on the biometric path as on the password path.  The  *)
(* code breaks it on the biometric path: tryWebAuthnLogin counts the       *)
(* attempt it is about to make and tests the threshold before it asks the  *)
(* authenticator, so the wipe is set after four failures, or after none.   *)
(***************************************************************************)
C19_WipeOnlyAfterMaxFailedAttempts ==
    \A t \in WipeTriggers :
        IF t.method = "password"
        THEN t.after.history.failedPassword >= MAX_RETRIES
        ELSE t.after.history.failedWebAuthn >= MAX_RETRIES

(***************************************************************************)
(* C20: after five failed password unlocks in a row the wipe runs, and at  *)
(* its end localStorage holds no cache, no escrow record and neither retry *)
(* counter, sessionStorage holds no attempt history, and master key,       *)
(* envelope and authenticated flag are reset.  The code breaks it: a page  *)
(* reload before the timer fires, or while the run waits for               *)
(* logSecurityEvent, leaves counter, cache and escrow record in place with *)
(* no wipe to come; and the page that the wipe reloads writes both         *)
(* counters back as "0".                                                   *)
(***************************************************************************)
C20_WipeRunsAndLeavesNothing ==
    /\ login.passwordRetryCount >= MAX_RETRIES => WipePending(S)
    /\ timers.wiping > 0 =>
          \A landed, focused \in BOOLEAN :
              LET r == wipeAllStorageLogged(S, landed, focused) IN
              /\ r.localStorage.encrypted_vault = Null
              /\ r.localStorage.webauthn_encrypted_key = Null
              /\ r.localStorage.password_retry_count = Null
              /\ r.localStorage.webauthn_retry_count = Null
              /\ r.sessionStorage.login_attempts = Null
              /\ r.masterKey = Null
              /\ r.encryptedVault = Null
              /\ ~r.isAuthenticated

\* The state a finished wipe leaves: nothing of the vault, of the escrow or
\* of the attempt history in storage, no session, no wipe left to run.
Erased ==
    /\ localStorage.encrypted_vault = Null
    /\ localStorage.webauthn_encrypted_key = Null
    /\ sessionStorage.login_attempts = Null
    /\ masterKey = Null
    /\ encryptedVault = Null
    /\ ~isAuthenticated
    /\ ~WipePending(S)

(***************************************************************************)
(* C21: once the threshold has been reached and a wipe is scheduled or     *)
(* running, the wipe eventually completes: storage is cleared, the session *)
(* is reset and the page is loaded anew, also when the security record is  *)
(* never delivered because the network never answers.  The code breaks it: *)
(* wipeAllStorage awaits logSecurityEvent before its first erase, and      *)
(* logSecurityEvent awaits fetches that have no timeout.                   *)
(***************************************************************************)
C21_WipeCompletesWhateverTheDelivery ==
    WipePending(S) ~> Erased

\* parseInt(localStorage.getItem(key) || '0', 10)
StoredCount(item) == IF item = Null THEN 0 ELSE parseInt(item)

(***************************************************************************)
(* C22: a reload of the page keeps both retry counters: the page that      *)
(* comes up holds the values that were persisted, the persisted values are *)
(* the same after the reload, and while the login page is shown they are   *)
(* the values the page held before, so that attempts made before and after *)
(* the reload add up.                                                      *)
(***************************************************************************)
C22_ReloadKeepsCounters ==
    \A landed, focused \in BOOLEAN :
        LET r == pageLoad(S, landed, focused) IN
        /\ r.login.passwordRetryCount =
                StoredCount(localStorage.password_retry_count)
        /\ r.login.webAuthnRetryCount =
                StoredCount(localStorage.webauthn_retry_count)
        /\ StoredCount(r.localStorage.password_retry_count) =
                StoredCount(localStorage.password_retry_count)
        /\ StoredCount(r.localStorage.webauthn_retry_count) =
                StoredCount(localStorage.webauthn_retry_count)
        /\ ~isAuthenticated =>
                /\ r.login.passwordRetryCount = login.passwordRetryCount
                /\ r.login.webAuthnRetryCount = login.webAuthnRetryCount

\* A page that was loaded anew after failed attempts of both methods: the
\* stores are as constructed, nothing is in flight, and both counters are
\* above 0; a further reload keeps them again.
C22_Witness ==
    /\ pat
    /\ gitHubConfig = Null
    /\ loads = << >>
    /\ ~WipePending(S)
    /\ login.passwordRetryCount > 0
    /\ login.webAuthnRetryCount > 0
    /\ sessionStorage.login_attempts # Null
    /\ pageLoad(S, FALSE, TRUE).login.passwordRetryCount > 0

\* What nacl.secretbox gives out: the message under a key and a nonce.
Sealed(box) == DOMAIN box = {"key", "nonce", "text"}

\* A stored text that is absent or the JSON of {salt, nonce, ciphertext}
\* with a sealed ciphertext.
EnvelopeOrAbsent(text) ==
    \/ text = Null
    \/ /\ IsJson(text)
       /\ DOMAIN JSONparse(text) = {"salt", "nonce", "ciphertext"}
       /\ Sealed(JSONparse(text).ciphertext)

\* The escrow record: absent, or the master key sealed, next to the public
\* material of the credential.
EscrowOrAbsent(text) ==
    \/ text = Null
    \/ /\ IsJson(text)
       /\ DOMAIN JSONparse(text) =
                {"credentialId", "publicKey", "encryptedMasterKey", "nonce", "salt"}
       /\ Sealed(JSONparse(text).encryptedMasterKey)
       /\ JSONparse(text).publicKey \notin Passwords
       /\ JSONparse(text).salt \notin Passwords
       /\ JSONparse(text).credentialId \notin Passwords

NumberOrAbsent(text) == text = Null \/ (DOMAIN text = {"str"} /\ text.str \in Int)

(***************************************************************************)
(* C23: in every reachable state the local cache and the remote vault file *)
(* hold nothing or an envelope {salt, nonce, ciphertext} whose ciphertext   *)
(* is sealed; and neither the raw master key nor the master password nor    *)
(* the decrypted document is a value, or a part of a value, of             *)
(* localStorage, of sessionStorage, of the remote file or of the security  *)
(* record: the escrow record holds the key sealed, the counters and the    *)
(* session start are numbers, the attempt history names methods and        *)
(* outcomes.  A file that is imported and is no envelope stays in memory.  *)
(***************************************************************************)
C23_StorageHoldsNoSecret ==
    /\ EnvelopeOrAbsent(localStorage.encrypted_vault)
    /\ EnvelopeOrAbsent(remote)
    /\ \A i \in 1..Len(pushes) : EnvelopeOrAbsent(JSONstringify(pushes[i].envelope))
    /\ EscrowOrAbsent(localStorage.webauthn_encrypted_key)
    /\ NumberOrAbsent(localStorage.webauthn_retry_count)
    /\ NumberOrAbsent(localStorage.password_retry_count)
    /\ NumberOrAbsent(localStorage.session_start)
    /\ DOMAIN localStorage = {"encrypted_vault", "webauthn_encrypted_key",
                              "webauthn_retry_count", "password_retry_count",
                              "session_start"}
    /\ sessionStorage.login_attempts \in {Null, JSONstringify("attempts")}
    /\ DOMAIN sessionStorage = {"login_attempts"}
    /\ LET e == securityEvent(S) IN
            /\ e.attemptsCount \in Int
            /\ NumberOrAbsent(e.session.sessionStart)
            /\ e.session.previousAttempts \in
                    {JSONstringify("[]"), JSONstringify("attempts")}
            /\ DOMAIN e = {"eventType", "attemptsCount", "session", "security"}

\* An open session with a key and a readable document, after a mutation has
\* written a fresh envelope to the cache and to the repository, with the key
\* in escrow; an object that is no envelope, imported now, goes to memory.
C23_Witness ==
    /\ isAuthenticated
    /\ masterKey # Null
    /\ Vault # Null
    /\ getCachedVault(S) # Null
    /\ getCachedVault(S).nonce > 0
    /\ remote = localStorage.encrypted_vault
    /\ localStorage.webauthn_encrypted_key # Null
    /\ importVault(S, JSONstringify(PlainObject)).encryptedVault = PlainObject

(***************************************************************************)
(* migrateVault run alone: the document unlockVault has parsed, of any     *)
(* schema version, is handed to migrateVault, and what it returns is       *)
(* handed to it again.                                                     *)
(***************************************************************************)
\* vaultVersion of a stored document: missing, 1, current, or above.
StoredVersions == {NoVersion, 1, CURRENT_VAULT_VERSION, CURRENT_VAULT_VERSION + 1}

StoredEntries ==
    [id : 0..(MaxEntries - 1), title : {"t1"}, password : {"x"}, created : {0},
     modified : {0}, category : {Undef, "work"}]

EntryLists ==
    {l \in UNION {[1..n -> StoredEntries] : n \in 0..MaxEntries} :
        \A i, j \in 1..Len(l) : i # j => l[i].id # l[j].id}

\* unlockVault has set globalNotes before it calls migrateVault.
ParsedVaults ==
    [version : {"1.0"}, vaultVersion : StoredVersions, vault : EntryLists,
     globalNotes : {"", "n1"}, verification : {Verification}]

MigrateInit ==
    /\ masterKey = Null
    /\ isAuthenticated = FALSE
    /\ encryptedVault = Null
    /\ syncStatus = [syncing |-> FALSE, lastSync |-> NoDate, error |-> NoError]
    /\ gitHubConfig = Null
    /\ isGitHubAuthenticated = FALSE
    /\ localStorage = [encrypted_vault |-> Null, webauthn_encrypted_key |-> Null,
                       webauthn_retry_count |-> toString(0),
                       password_retry_count |-> toString(0),
                       session_start |-> Null]
    /\ remote = Null
    /\ pat = FALSE
    /\ pushes = << >>
    /\ loads = << >>
    /\ rng = 0
    /\ uuid = 0
    /\ now = 1
    /\ login = LoginAtRest
    /\ sessionStorage = [login_attempts |-> Null]
    /\ timers = NoTimers
    /\ history = NoHistory
    /\ \E d \in ParsedVaults :
            migration = [argument |-> d, value |-> d, calls |-> 0]

MigrateVault ==
    /\ migration.calls < MaxApplied
    /\ migration' = [migration EXCEPT !.value = migrateVault(@),
                                          !.calls = @ + 1]
    /\ UNCHANGED <<masterKey, isAuthenticated, encryptedVault, syncStatus,
                   gitHubConfig, isGitHubAuthenticated, localStorage, remote,
                   pushes, loads, rng, uuid, now, pat, login, sessionStorage,
                   timers, history>>

MigrateNext == MigrateVault

MigrateSpec == MigrateInit /\ [][MigrateNext]_vars

(***************************************************************************)
(* C24: migrateVault is idempotent: for a document of any version          *)
(* (missing, 1, current or above) migrating what a migration returned      *)
(* returns it unchanged, so that after one call and after two the document *)
(* is the same; and a document of the current version is returned as it is.*)
(***************************************************************************)
C24_MigrateIsIdempotent ==
    LET d == migration.value IN
    /\ migrateVault(migrateVault(d)) = migrateVault(d)
    /\ d.vaultVersion = CURRENT_VAULT_VERSION => migrateVault(d) = d
    /\ migration.calls >= 1 =>
            /\ migration.value = migrateVault(migration.argument)
            /\ migrateVault(migration.value) = migration.value

\* A document without a version and with two entries, one of them with a
\* category, has been migrated twice.
C24_Witness ==
    /\ migration.calls = 2
    /\ migration.argument.vaultVersion = NoVersion
    /\ Len(migration.argument.vault) = 2
    /\ migration.argument.vault[1].category = "work"
    /\ migration.value # migration.argument
    /\ migration.value.vaultVersion = CURRENT_VAULT_VERSION

(***************************************************************************)
(* C25: a document whose vaultVersion is 1 or missing comes out of         *)
(* migrateVault with vaultVersion 2 and with category removed from every   *)
(* entry; the entries are as many and in the same order, every other field *)
(* of every entry is unchanged, and so are globalNotes and the rest of the *)
(* document.                                                               *)
(***************************************************************************)
C25_MigrateRemovesOnlyCategory ==
    LET d == migration.argument
        r == migrateVault(d)
    IN  d.vaultVersion \in {NoVersion, 1} =>
            /\ r.vaultVersion = 2
            /\ Len(r.vault) = Len(d.vault)
            /\ \A i \in 1..Len(d.vault) :
                    /\ r.vault[i].category = Undef
                    /\ [r.vault[i] EXCEPT !.category = d.vault[i].category] = d.vault[i]
            /\ [r EXCEPT !.vault = d.vault, !.vaultVersion = d.vaultVersion] = d
            /\ migration.calls >= 1 => migration.value = r

\* A version 1 document with two categorised entries and notes has been
\* migrated.
C25_Witness ==
    /\ migration.calls = 1
    /\ migration.argument.vaultVersion = 1
    /\ Len(migration.argument.vault) = 2
    /\ \A i \in 1..2 : migration.argument.vault[i].category = "work"
    /\ migration.argument.globalNotes = "n1"
    /\ migration.value.vaultVersion = 2
    /\ \A i \in 1..2 : migration.value.vault[i].category = Undef

(***************************************************************************)
(* C26: after an unlock that ends with isAuthenticated = true, by password *)
(* or by biometric login and unlockVault(''), the exposed document has a   *)
(* globalNotes string, the empty one when the stored document had none,    *)
(* whatever its schema version.  The code breaks it: only the password     *)
(* path sets globalNotes, and only a migration writes the result back.     *)
(***************************************************************************)
C26_UnlockExposesGlobalNotes ==
    \A u \in UnlockReturns \cup NoSecretUnlockReturns :
        (u.after.ret.result /\ u.after.isAuthenticated
            /\ Exposed(u.after) # Null) =>
            Exposed(u.after).globalNotes # Undef

\* The document sealed in an envelope.
SealedDoc(ev) == JSONparse(ev.ciphertext.text)

\* The load that follows in s, run to its answer.
NextLoads(s) ==
    LET r == loadVaultFromGitHub(s, [kind |-> "manual"]) IN
    IF Len(r.loads) > Len(s.loads)
    THEN {loadAnswered(r, Len(r.loads), net) : net \in Net}
    ELSE {r}

(***************************************************************************)
(* C27: when unlockVault has migrated the document, the migrated form is   *)
(* the in-memory envelope and the cached one, and it is written to the     *)
(* repository: once the push the unlock started has completed, the next    *)
(* load, from the cache or from the repository, yields a document of the   *)
(* current version, in memory and in the cache.  The code breaks it: the   *)
(* push is tried once, and when it fails the next download puts the        *)
(* legacy envelope of the repository back into memory and into the cache.  *)
(***************************************************************************)
C27_MigratedFormIsPersisted ==
    \A pw \in Passwords : \A u \in unlockVaultRun(S, pw) :
        (u.ret.result /\ u.rng > rng) =>
            /\ IsCurrent(vault(u.masterKey, u.encryptedVault))
            /\ getCachedVault(u) = u.encryptedVault
            /\ Len(u.pushes) > Len(pushes) =>
                    \A net \in Net :
                        \A n \in NextLoads(pushAnswered(u, Len(u.pushes), net)) :
                            /\ IsCurrent(SealedDoc(n.encryptedVault))
                            /\ IsCurrent(SealedDoc(getCachedVault(n)))

\* What the edit form hands to updatePassword: some of the fields of an
\* entry, never id or created.
PartialEntries ==
    Updates \cup {[title |-> "t2"], [title |-> "t2", password |-> "z"]}

(***************************************************************************)
(* C28: updatePassword(id, updates) on an entry that exists changes, in    *)
(* that entry, the fields updates names and modified, which is set to the  *)
(* time of the call; the entry keeps its id, its created, its other fields *)
(* and its place in the list; every other entry, globalNotes and the rest  *)
(* of the document are unchanged.                                          *)
(***************************************************************************)
C28_UpdateChangesOnlyNamedFields ==
    \A id \in EntryIds, u \in PartialEntries :
        LET d == Vault
            r == updatePassword(S, id, u)
            e == vault(r.masterKey, r.encryptedVault)
        IN  (~locked(S) /\ findIndex(d.vault, id) # -1) =>
                LET k == findIndex(d.vault, id) IN
                /\ e # Null
                /\ Len(e.vault) = Len(d.vault)
                /\ \A i \in 1..Len(d.vault) : i # k => e.vault[i] = d.vault[i]
                /\ e.vault[k].id = id
                /\ e.vault[k].created = d.vault[k].created
                /\ DOMAIN e.vault[k] = DOMAIN d.vault[k]
                /\ \A f \in DOMAIN d.vault[k] \ (DOMAIN u \cup {"modified"}) :
                        e.vault[k][f] = d.vault[k][f]
                /\ \A f \in DOMAIN u : e.vault[k][f] = u[f]
                /\ e.vault[k].modified = now
                /\ [e EXCEPT !.vault = d.vault] = d

\* A document of two entries whose first entry has been updated: its
\* password is the new one, its modified is later than its created, and the
\* second entry is as it was added.
C28_Witness ==
    /\ Vault # Null
    /\ Len(Vault.vault) = 2
    /\ Vault.vault[1].password = "z"
    /\ Vault.vault[1].modified > Vault.vault[1].created
    /\ Vault.vault[1].title = "t1"
    /\ Vault.vault[2].password \in EntryPasswords
    /\ Vault.vault[2].modified = Vault.vault[2].created

\* The ids of the entries of a document.
Ids(doc) == {doc.vault[i].id : i \in 1..Len(doc.vault)}

(***************************************************************************)
(* C29: in every document the program exposes the ids of the entries are   *)
(* pairwise distinct; addPassword appends exactly one entry, whose id no   *)
(* entry had, and leaves the others; deletePassword(id) of an id that      *)
(* exists removes exactly the entry with that id and leaves the others in  *)
(* their order.                                                            *)
(***************************************************************************)
C29_EntryIdsAreDistinct ==
    LET d == Vault IN
    ~locked(S) =>
        /\ \A i, j \in 1..Len(d.vault) : i # j => d.vault[i].id # d.vault[j].id
        /\ \A entry \in NewEntries :
                LET r == addPassword(S, entry)
                    e == vault(r.masterKey, r.encryptedVault)
                IN  /\ e # Null
                    /\ Len(e.vault) = Len(d.vault) + 1
                    /\ SubSeq(e.vault, 1, Len(d.vault)) = d.vault
                    /\ e.vault[Len(e.vault)].id \notin Ids(d)
                    /\ Cardinality(Ids(e)) = Len(e.vault)
        /\ \A id \in Ids(d) :
                LET r == deletePassword(S, id)
                    e == vault(r.masterKey, r.encryptedVault)
                IN  /\ e # Null
                    /\ Len(e.vault) = Len(d.vault) - 1
                    /\ id \notin Ids(e)
                    /\ e.vault = SelectSeq(d.vault, LAMBDA x : x.id # id)
                    /\ Ids(e) = Ids(d) \ {id}

\* A document of two entries, the second one added in this session, from
\* which either can be deleted and to which a third can be added.
C29_Witness ==
    /\ ~locked(S)
    /\ Len(Vault.vault) = 2
    /\ Vault.vault[2].id = uuid
    /\ uuid > 0
    /\ Cardinality(Ids(Vault)) = 2

PullOutcome(s, content, net) ==
    LET result == downloadVaultFromGitHub(content, net)
        r == loadVaultFromGitHubDone(s, result)
    IN  [resultError |-> result.error, loaded |-> r.loaded,
         statusError |-> r.s.syncStatus.error]

(***************************************************************************)
(* C31: when the repository answers 404 for the vault file, what callers   *)
(* see of the pull, the error of the download result and syncStatus.error  *)
(* after loadVaultFromGitHub, is a not-found value that differs from what  *)
(* they see after a network or server failure, with a local cache and      *)
(* without one.  The code breaks it: with a cache both pulls end with      *)
(* syncStatus.error "Using cached vault (offline)" and return true.        *)
(***************************************************************************)
C31_NotFoundIsDistinct ==
    \A net \in Net \ {"ok"} :
        LET missing == PullOutcome(S, Null, "ok")
            broken == PullOutcome(S, remote, net)
        IN  /\ missing.resultError = "No vault found in repository"
            /\ missing.resultError # broken.resultError
            /\ missing.statusError # broken.statusError

\* The sync that follows in s with the repository reachable: handleSyncClick
\* run to the answer of its download.
SyncReachable(s) ==
    LET r == loadVaultFromGitHub(s, [kind |-> "manual"]) IN
    IF Len(r.loads) > Len(s.loads)
    THEN loadAnswered(r, Len(r.loads), "ok")
    ELSE r

(***************************************************************************)
(* C32: a change made while the repository is unreachable is kept in the   *)
(* cache and reaches the repository once it is reachable: after a mutation *)
(* whose push failed, the cache holds the new envelope, and a sync that    *)
(* follows with the repository reachable ends with the repository, the     *)
(* cache and the envelope in memory all holding it.  The code breaks it:   *)
(* the sync, like the load of an unlock, only downloads, and what it       *)
(* downloads replaces the envelope in memory and in the cache.             *)
(***************************************************************************)
C32_OfflineChangeReachesRemote ==
    Vault # Null =>
        \A m \in {x \in Mutations : Applies(x, Vault)} :
            LET r == mutate(S, m) IN
            StartedPush(S, r) =>
                \A net \in Net \ {"ok"} :
                    LET f == pushAnswered(r, Len(r.pushes), net)
                        n == SyncReachable(f)
                    IN  /\ getCachedVault(f) = r.encryptedVault
                        /\ n.encryptedVault = r.encryptedVault
                        /\ getCachedVault(n) = r.encryptedVault
                        /\ n.remote = JSONstringify(r.encryptedVault)

\* No envelope in memory and none in the cache.
NoEnvelope(s) ==
    /\ s.encryptedVault = Null
    /\ s.localStorage.encrypted_vault = Null

(***************************************************************************)
(* C33: after clearAllData, which the page offers while a session is open, *)
(* there is no envelope in memory and none in the cache, and none comes    *)
(* back when a push or a pull that was in flight at that moment completes, *)
(* whatever the network answers.  The code breaks it: a push that          *)
(* completes writes the envelope it captured to the cache, and a pull that *)
(* completes sets the downloaded or cached envelope.                       *)
(***************************************************************************)
C33_ClearAllDataLeavesNoEnvelope ==
    LET r == clearAllData(S) IN
    isAuthenticated =>
    /\ NoEnvelope(r)
    /\ r.masterKey = Null /\ ~r.isAuthenticated
    /\ \A i \in 1..Len(r.pushes) : \A net \in Net :
            NoEnvelope(pushAnswered(r, i, net))
    /\ \A i \in 1..Len(r.loads) : \A net \in Net :
            NoEnvelope(loadAnswered(r, i, net))

\* A push or a pull has been started and has not answered.
InFlight == pushes # << >> \/ loads # << >>

(***************************************************************************)
(* C34: syncStatus.syncing is true exactly while a push or a pull is in    *)
(* flight: true from the start of the first to the completion of the last, *)
(* also when several overlap, and false when none is.  The code breaks it: *)
(* every completion sets syncing to false, whatever else is in flight.     *)
(***************************************************************************)
C34_SyncingIffInFlight == syncStatus.syncing <=> InFlight

\* The salt of an envelope, Null where there is none.
SaltOf(ev) == IF ev = Null THEN Null ELSE IF IsEnvelope(ev) THEN ev.salt ELSE Null

\* new is old sealed again: the same salt, another nonce, and a ciphertext
\* made under that nonce.
Resealed(old, new) ==
    /\ new.salt = old.salt
    /\ new.nonce # old.nonce
    /\ new.ciphertext # old.ciphertext
    /\ new.ciphertext.nonce = new.nonce

\* The steps that put another envelope, or none, into memory: initialize,
\* a load from the repository or from the cache (alone or at the start of
\* an unlock or of the biometric login), import, and lock.
ReplacesEnvelope ==
    \/ \E password \in Passwords : InitializeVault(password)
    \/ \E i \in 1..MaxLoads, net \in Net : LoadVaultFromGitHubDone(i, net)
    \/ \E password \in Passwords : UnlockVault(password)
    \/ \E asserted \in BOOLEAN : TryWebAuthnLogin(asserted)
    \/ HandleSyncClick
    \/ \E vaultData \in ImportFiles : ImportVault(vaultData)
    \/ LockVault

clearWebAuthnCredential_keeps(s) == s

clearWebAuthnCredential(s) ==
    [s EXCEPT !.localStorage.webauthn_encrypted_key = Null]

handleCompleteLogout(s, focused) ==
    mountLogin(clearWebAuthnCredential(clearAllData(s)), focused)

Escrow(s) == s.localStorage.webauthn_encrypted_key

\* This step writes an escrow record that was not there.
EscrowCreated ==
    /\ localStorage'.webauthn_encrypted_key # Null
    /\ localStorage'.webauthn_encrypted_key # localStorage.webauthn_encrypted_key

\* This step is the return of a handleSubmit whose unlockVault obtained an
\* envelope and opened it with the password typed, and the record it leaves
\* wraps the key of that unlock.
RegistrationAfterPasswordUnlock ==
    \E u \in SubmitReturns :
        /\ u.after.ret.result
        /\ u.envelope # Null
        /\ ~WrongSecret(u.password, u.envelope)
        /\ u.after.masterKey = deriveKey(u.password, stringToSalt(u.envelope.salt))
        /\ localStorage' = u.after.localStorage
        /\ masterKey' = u.after.masterKey
        /\ authenticateWithWebAuthn(u.after) = u.after.masterKey

\* In s there is no escrow record, and a biometric attempt made in s ends
\* without a key and leaves the master key, the envelope and the flag.
NoCredential(s) ==
    /\ Escrow(s) = Null
    /\ authenticateWithWebAuthn(s) = Null
    /\ \A focused, gesture, asserted \in BOOLEAN :
          LET r == tryWebAuthnLoginClicked(s, focused, gesture, asserted) IN
          /\ r.masterKey = s.masterKey
          /\ r.encryptedVault = s.encryptedVault
          /\ r.isAuthenticated = s.isAuthenticated
          /\ Escrow(r) = Null

(***************************************************************************)
(* C36: an escrow record is written only by the registration at the end of *)
(* a handleSubmit whose password unlock succeeded; when the lockout wipe   *)
(* has run to its end, and after the complete logout with its              *)
(* clearWebAuthnCredential, there is none, and wherever there is none a    *)
(* biometric attempt ends with no credential and leaves the master key,    *)
(* the envelope and isAuthenticated as they were.                          *)
(***************************************************************************)
C36_EscrowOnlyAfterPasswordUnlock ==
    /\ [][EscrowCreated => RegistrationAfterPasswordUnlock]_vars
    /\ [](timers.wiping > 0 =>
            \A landed, focused \in BOOLEAN :
                NoCredential(wipeAllStorageLogged(S, landed, focused)))
    /\ [](isAuthenticated =>
            \A focused \in BOOLEAN : NoCredential(handleCompleteLogout(S, focused)))
    /\ [](Escrow(S) = Null => NoCredential(S))

\* A wipe runs on a browser that holds an escrow record and a cached vault.
C36_Witness ==
    /\ timers.wiping > 0
    /\ Escrow(S) # Null
    /\ authenticateWithWebAuthn(S) # Null
    /\ localStorage.encrypted_vault # Null

\* The cache holds the envelope that is in memory in s.
CacheIsMemory(s) == s.localStorage.encrypted_vault = JSONstringify(s.encryptedVault)

\* The states in which two mutations made one after the other in this state
\* have each started a push and both pushes have answered, in either order.
TwoPushesAnswered ==
    UNION {
        UNION {
            LET r2 == mutate(mutate(S, m1), m2) IN
            IF Len(r2.pushes) # Len(pushes) + 2 THEN {}
            ELSE {[last |-> r2.encryptedVault,
                   after |-> pushAnswered(pushAnswered(r2, x[1], x[2]),
                                          Len(pushes) + 1, x[3])] :
                    x \in {Len(pushes) + 1, Len(pushes) + 2} \X Net \X Net} :
            m2 \in {x \in Mutations : Applies(x, Exposed(mutate(S, m1)))}} :
        m1 \in {x \in Mutations : Vault # Null /\ Applies(x, Vault)}}

(***************************************************************************)
(* C37: while the vault is unlocked and no push is in flight the cache     *)
(* holds the envelope that is in memory; and when the pushes of two        *)
(* consecutive mutations have answered, in either order, the cache holds   *)
(* the envelope of the later mutation.  The code breaks both:              *)
(* initializeVault and importVault do not cache, and a push that answers   *)
(* caches the envelope it captured when it started.                        *)
(***************************************************************************)
C37_CacheFollowsMemory ==
    /\ (isAuthenticated /\ pushes = << >>) => CacheIsMemory(S)
    /\ \A t \in TwoPushesAnswered :
            t.after.localStorage.encrypted_vault = JSONstringify(t.last)

\* s is as lockVault leaves the session: no key, no envelope, flag down.
LockedOut(s) ==
    /\ s.masterKey = Null
    /\ s.encryptedVault = Null
    /\ ~s.isAuthenticated

\* The states in which lockVault has run in this state and then one of the
\* loads or pushes that were in flight has answered.
AnsweredAfterLock ==
    {loadAnswered(lockVault(S), x[1], x[2]) : x \in (1..Len(loads)) \X Net}
    \cup
    {pushAnswered(lockVault(S), x[1], x[2]) : x \in (1..Len(pushes)) \X Net}

(***************************************************************************)
(* C38: what lockVault establishes (master key null, envelope null,        *)
(* isAuthenticated false) still holds when a load or a push that was in    *)
(* flight at the lock answers afterwards, and isAuthenticated is never     *)
(* true while the master key is null.  The code breaks it: the load that   *)
(* answers sets the envelope, and the unlockVault that waited for it sets  *)
(* isAuthenticated.                                                        *)
(***************************************************************************)
C38_LockSurvivesCompletions ==
    /\ \A a \in AnsweredAfterLock : LockedOut(a)
    /\ isAuthenticated => masterKey # Null

\* What a reader of localStorage computes from it with the steps of
\* authenticateWithWebAuthn that follow the assertion: the wrap key from the
\* stored public key and salt, and with it the stored master key.  Nothing of
\* the assertion enters the computation.
KeyFromStorage(stored) == authenticateWithWebAuthn([localStorage |-> stored])

(***************************************************************************)
(* C39: the master key cannot be computed from the contents of             *)
(* localStorage alone: what the stored items yield without a credential    *)
(* assertion is no key, and is not the key the biometric login installs.   *)
(* The code breaks it:                                                     *)
(* the key that wraps the escrowed master key is the hash of the public    *)
(* key and the salt that are stored in the same record.                    *)
(***************************************************************************)
C39_StorageAloneYieldsNoKey ==
    /\ KeyFromStorage(localStorage) = Null
    /\ \A asserted \in BOOLEAN :
          LET r == tryWebAuthnLogin(S, asserted) IN
          (~isAuthenticated /\ r.masterKey # Null /\ r.masterKey # masterKey)
              => r.masterKey # KeyFromStorage(localStorage)

(***************************************************************************)
(* C40: a handleSubmit whose unlockVault obtained no envelope, the         *)
(* repository unreachable or empty and nothing in the cache, leaves        *)
(* passwordRetryCount as it was and sets no wipe.  The code breaks it:     *)
(* handleSubmit counts every unlockVault that returns false.               *)
(***************************************************************************)
C40_TransportFailureIsNotCounted ==
    \A u \in SubmitReturns :
        u.envelope = Null =>
            /\ u.after.login.passwordRetryCount = login.passwordRetryCount
            /\ u.after.localStorage.password_retry_count
                    = localStorage.password_retry_count
            /\ u.after.timers.wipe = timers.wipe

====
